---- MODULE Spec2Model ----
(***************************************************************************)
(* RedFoxTool: the credential sweep (scanner.rs, bruteforcer.rs), the      *)
(* login attempt with its transport retry (http_client.rs test_login) and  *)
(* the response classifier (http_client.rs is_success_response).           *)
(*                                                                         *)
(* The specifications of the module:                                       *)
(*   SpecClassify   the classifier, applied to responses drawn from        *)
(*                  bounded sets of statuses, Location values and bodies;  *)
(*   SpecLogin      one HttpClient::test_login call, try by try;           *)
(*   Spec           one RedFoxScanner::scan sweep in any of the four modes;*)
(*   SpecSweeps     Spec, or one Bruteforcer::attack sweep;                *)
(*   SpecSweepsLive SpecSweeps under weak fairness, max_workers >= 1;      *)
(*   SpecSmart      Bruteforcer::smart_attack;                             *)
(*   SpecParse      parser.rs and RedFoxScanner::new;                      *)
(*   SpecChannel    scan_normal by numbers, near the channel capacity;     *)
(*   SpecProgress   a ProgressTracker created, updated and read;           *)
(*   SpecRayon      the rayon body of scan_aggressive, chunk by chunk;     *)
(*   SpecProxy      RedFoxScanner::set_proxy on a constructed scanner;     *)
(*   SpecBatch      HttpClient::send_batch.                                *)
(* Text is a sequence of one-character strings, so that substring search,  *)
(* lower-casing and header decoding are computed, not assumed.             *)
(***************************************************************************)
EXTENDS Integers, Sequences, FiniteSets, TLC

VARIABLES
    cl_resp,        \* classifier: the response handed to is_success_response
    cl_done,        \* classifier: whether is_success_response has returned
    cl_verdict,     \* classifier: the boolean it returned
    call,           \* test_login: the locals of the call in progress
    cookies,        \* HttpClient.cookies of the client the call runs on
    http_client,    \* RedFoxScanner.http_client: base_url, request_timeout, proxy
    users,          \* RedFoxScanner.users
    passwords,      \* RedFoxScanner.passwords
    max_workers,    \* RedFoxScanner.max_workers
    attack_mode,    \* RedFoxScanner.attack_mode
    pc,             \* position of the task running scan()
    permits,        \* available permits of the semaphore created in scan()
    workers,        \* scan_fast: the spawned chunk tasks, in spawn order
    shared,         \* scan_fast: the Arc<Mutex<Vec<ScanResult>>>
    producer,       \* scan_normal: state of the producer task
    spawned,        \* scan_normal: number of pairs the producer has spawned
    tasks,          \* scan_normal: state of the task spawned for each pair
    chan,           \* scan_normal: the queue of the mpsc channel
    senders,        \* scan_normal: live Sender handles of the channel
    consumer,       \* scan_normal: state of the consumer task
    local_results,  \* scan_normal: the consumer's local_results
    cur,            \* sequential loops: index of the pair being processed
    attempt,        \* scan_aggressive: counter of the retry loop
    last_error,     \* scan_aggressive: last_error of the retry loop
    results,        \* the Vec<ScanResult> built and returned
    pb,             \* position of the indicatif progress bar
    calls,          \* sweep: the test_login calls that have returned, by pair and outcome
    in_flight,      \* sweep: test_login calls started whose result is not yet handed over
    paced_ms,       \* stealth: sum of the pacing sleeps taken so far
    user_input,     \* RedFoxScanner::new: the user_input argument
    password_file,  \* RedFoxScanner::new: the password_file argument
    precheck,       \* smart_attack: the results of the precheck phase
    tracker,        \* a ProgressTracker and the last reading of percentage()
    pair_log,       \* aggressive: the test_login calls and the delays of the current pair
    ch              \* scan_normal by numbers: pairs to spawn, tasks that have not
                    \* sent, results queued in the channel, results received

clVars == <<cl_resp, cl_done, cl_verdict>>
tlVars == <<call, cookies, http_client>>
cfgVars == <<users, passwords, max_workers, attack_mode>>
fastVars == <<workers, shared>>
normalVars == <<producer, spawned, tasks, chan, senders, consumer, local_results>>
aggVars == <<attempt, last_error>>
ghostVars == <<calls, in_flight, paced_ms>>
inVars == <<user_input, password_file>>
swVars == <<cfgVars, inVars, pc, permits, fastVars, normalVars, cur, aggVars, results, pb,
            ghostVars, ch, precheck, tracker, pair_log>>
vars == <<clVars, tlVars, swVars>>

(***************************************************************************)
(* Bounds of the model.                                                    *)
(***************************************************************************)
MaxBodyWords == 2   \* fragments concatenated into a response body
MaxUsers == 3       \* longest username list
MaxPasswords == 2   \* longest password list
MaxPairs == 3       \* largest cross product swept
MaxWorkers == 2     \* largest max_workers
MaxInputLen == 3    \* longest user_input string, and longest file content
MaxPasswordInputLen == 1   \* longest password_file string, and file content

(***************************************************************************)
(* Text.                                                                   *)
(***************************************************************************)
\* A byte >= 0x80: legal inside a header value, but not visible ASCII.
ObsByte == "xFF"

Upper == <<"D", "L", "W">>
Lower == <<"d", "l", "w">>

\* char::to_lowercase on the characters the model uses
LowerChar(c) ==
    IF \E i \in 1..Len(Upper) : Upper[i] = c
    THEN Lower[CHOOSE i \in 1..Len(Upper) : Upper[i] = c]
    ELSE c

\* str::to_lowercase
to_lowercase(s) == [i \in 1..Len(s) |-> LowerChar(s[i])]

\* str::contains(pat)
contains(s, pat) ==
    \E i \in 1..(Len(s) - Len(pat) + 1) : SubSeq(s, i, i + Len(pat) - 1) = pat

\* str::matches(pat).count(): the non-overlapping occurrences met scanning
\* left to right from position i
RECURSIVE matches_count(_, _, _)
matches_count(s, pat, i) ==
    IF i + Len(pat) - 1 > Len(s) THEN 0
    ELSE IF SubSeq(s, i, i + Len(pat) - 1) = pat
         THEN 1 + matches_count(s, pat, i + Len(pat))
         ELSE matches_count(s, pat, i + 1)

\* mutant: the bytes that are not visible ASCII are skipped
to_str_lossy(v) ==
    LET visible(c) == c # ObsByte
    IN  [ok |-> TRUE, str |-> SelectSeq(v, visible)]

\* HeaderValue::to_str: Ok only when every byte is visible ASCII
to_str(v) ==
    IF \A i \in 1..Len(v) : v[i] # ObsByte
    THEN [ok |-> TRUE, str |-> v]
    ELSE [ok |-> FALSE, str |-> <<>>]

\* Result::unwrap_or("") on the decoded header
unwrap_or_empty(r) == IF r.ok THEN r.str ELSE <<>>

(***************************************************************************)
(* Responses.  location.present is headers().get("Location").is_some();    *)
(* body.readable is whether response.text() returns Ok.                    *)
(***************************************************************************)
NoHeader == [present |-> FALSE, value |-> <<>>]
Header(v) == [present |-> TRUE, value |-> v]
Body(t) == [readable |-> TRUE, text |-> t]
BrokenBody == [readable |-> FALSE, text |-> <<>>]
Response(s, l, b) == [status |-> s, location |-> l, body |-> b]
NoResponse == Response(0, NoHeader, BrokenBody)

\* StatusCode::is_success
is_success(status) == status >= 200 /\ status < 300
\* StatusCode::is_redirection
is_redirection(status) == status >= 300 /\ status < 400

failure_indicators ==
    << <<"i", "n", "v", "a", "l", "i", "d">>,
       <<"i", "n", "c", "o", "r", "r", "e", "c", "t">>,
       <<"w", "r", "o", "n", "g">>,
       <<"f", "a", "i", "l", "e", "d">>,
       <<"e", "r", "r", "o", "r">>,
       <<"l", "o", "g", "i", "n", " ", "f", "a", "i", "l", "e", "d">>,
       <<"a", "c", "c", "e", "s", "s", " ", "d", "e", "n", "i", "e", "d">>,
       <<"u", "n", "a", "u", "t", "h", "o", "r", "i", "z", "e", "d">> >>

success_indicators ==
    << <<"w", "e", "l", "c", "o", "m", "e">>,
       <<"d", "a", "s", "h", "b", "o", "a", "r", "d">>,
       <<"h", "o", "m", "e">>,
       <<"l", "o", "g", "o", "u", "t">>,
       <<"p", "r", "o", "f", "i", "l", "e">>,
       <<"s", "u", "c", "c", "e", "s", "s">>,
       <<"l", "o", "g", "g", "e", "d", " ", "i", "n">>,
       <<"r", "e", "d", "i", "r", "e", "c", "t", "i", "n", "g">> >>

RECURSIVE SumOver(_, _, _)
\* indicators.iter().map(|i| body_lower.matches(i).count()).sum()
SumOver(indicators, body_lower, k) ==
    IF k > Len(indicators) THEN 0
    ELSE matches_count(body_lower, indicators[k], 1)
         + SumOver(indicators, body_lower, k + 1)

failure_points(body_lower) == SumOver(failure_indicators, body_lower, 1)
success_points(body_lower) == SumOver(success_indicators, body_lower, 1)

LoginWord == <<"l", "o", "g", "i", "n">>
ErrorWord == <<"e", "r", "r", "o", "r">>
FailWord == <<"f", "a", "i", "l">>

\* the redirect rule applied to the decoded Location value
location_ok(location_str) ==
    /\ ~contains(location_str, LoginWord)
    /\ ~contains(location_str, ErrorWord)
    /\ ~contains(location_str, FailWord)

\* mutant: a tie of the two scores counts as success
body_verdict_ties_succeed(body) ==
    IF body.readable
    THEN LET body_lower == to_lowercase(body.text)
         IN  success_points(body_lower) >= failure_points(body_lower)
    ELSE FALSE

\* mutant: a body that cannot be read counts as success
body_verdict_unreadable_succeeds(body) ==
    IF body.readable
    THEN LET body_lower == to_lowercase(body.text)
         IN  success_points(body_lower) > failure_points(body_lower)
    ELSE TRUE

\* the match on response.text(): keyword scores of the lower-cased body
body_verdict(body) ==
    IF body.readable
    THEN LET body_lower == to_lowercase(body.text)
         IN  success_points(body_lower) > failure_points(body_lower)
    ELSE FALSE

\* mutant: the status short-circuit only recognises 200
is_success_response_only200(response) ==
    IF response.status = 200 THEN TRUE
    ELSE IF is_redirection(response.status) /\ response.location.present
         THEN location_ok(unwrap_or_empty(to_str(response.location.value)))
         ELSE body_verdict(response.body)

\* mutant: a redirect without Location is rejected without reading the body
is_success_response_noloc_fails(response) ==
    IF is_success(response.status) THEN TRUE
    ELSE IF is_redirection(response.status)
         THEN /\ response.location.present
              /\ location_ok(unwrap_or_empty(to_str(response.location.value)))
         ELSE body_verdict(response.body)

\* HttpClient::is_success_response
is_success_response(response) ==
    IF is_success(response.status) THEN TRUE
    ELSE IF is_redirection(response.status) /\ response.location.present
         THEN location_ok(unwrap_or_empty(to_str(response.location.value)))
         ELSE body_verdict(response.body)

(***************************************************************************)
(* Inputs of the classifier.                                               *)
(***************************************************************************)
Statuses == {200, 204, 301, 302, 401, 500}

DashboardPath == <<"/", "d", "a", "s", "h", "b", "o", "a", "r", "d">>
LoginErrorPath == <<"/", "l", "o", "g", "i", "n", "?", "e", "r", "r", "o", "r", "=", "1">>

LocationValues ==
    { DashboardPath,
      LoginErrorPath,
      <<"/", "L", "o", "g", "i", "n">>,
      <<"/", "f", "a", "i", "l">>,
      <<>>,
      <<"/", "l", "o", "g", "i", "n", ObsByte>>,
      <<"/", ObsByte>> }

Locations == {NoHeader} \cup {Header(v) : v \in LocationValues}

AccessDenied == <<"a", "c", "c", "e", "s", "s", " ", "d", "e", "n", "i", "e", "d">>
WelcomeCap == <<"W", "e", "l", "c", "o", "m", "e">>

BodyWords ==
    { AccessDenied,
      WelcomeCap,
      <<"l", "o", "g", "i", "n", " ", "f", "a", "i", "l", "e", "d">>,
      <<"l", "o", "g", "g", "e", "d", " ", "i", "n">>,
      <<"e", "r", "r", "o", "r">>,
      <<"h", "o", "m", "e">> }

RECURSIVE Texts(_)
\* every concatenation of at most n body fragments
Texts(n) ==
    IF n = 0 THEN {<<>>}
    ELSE Texts(n - 1) \cup {t \o w : t \in Texts(n - 1), w \in BodyWords}

Bodies == {BrokenBody} \cup {Body(t) : t \in Texts(MaxBodyWords)}

ClassifierInputs ==
    {Response(s, l, b) : s \in Statuses, l \in Locations, b \in Bodies}

(***************************************************************************)
(* HttpClient::test_login.  The call's locals are a record; one loop       *)
(* iteration is test_login_try, the end of the backoff sleep is            *)
(* test_login_wake.  Instrumentation of the call: tries counts the calls   *)
(* of send_login_request, failed lists the errors and answered the         *)
(* responses they returned, slept lists the delays taken.                  *)
(***************************************************************************)
max_retries == 3
BackoffMs == 200

NoError == "none"
NoCookie == "none"
ValidCookie == "session=abc"
InvalidCookie == "bad\ncookie"     \* HeaderValue::from_str rejects it

\* HttpClient::set_cookies: the string is stored as it is given
set_cookies(value) == value

Ok(r) == [ok |-> TRUE, response |-> r, error |-> NoError]
Err(e) == [ok |-> FALSE, response |-> NoResponse, error |-> e]

\* what the network does with one request: a response, or a transport error
NetResponse(r) == [kind |-> "response", response |-> r, error |-> NoError]
NetError(e) == [kind |-> "error", response |-> NoResponse, error |-> e]

\* HttpClient::send_login_request: the cookie header is built first (and `?`
\* returns its error), then the request goes out under the timeout
send_login_request(cookie, net) ==
    IF cookie = InvalidCookie THEN Err("invalid header value")
    ELSE IF net.kind = "response" THEN Ok(net.response)
    ELSE Err(net.error)

NewCall ==
    [ pc |-> "send", retries |-> 0, last_error |-> NoError, tries |-> 0,
      failed |-> <<>>, answered |-> <<>>, delay |-> 0, slept |-> <<>>,
      ret |-> Err(NoError) ]

\* the Ok(response) arm: return Ok(response)
on_response(c, response) ==
    [c EXCEPT !.pc = "returned", !.tries = @ + 1,
              !.answered = Append(@, response), !.ret = Ok(response)]

\* mutant: the backoff doubles from one retry to the next
on_error_doubling(c, e) ==
    IF c.retries + 1 > max_retries
    THEN [c EXCEPT !.pc = "returned", !.tries = @ + 1, !.retries = @ + 1,
                   !.failed = Append(@, e), !.last_error = e, !.ret = Err(e)]
    ELSE [c EXCEPT !.pc = "sleep", !.tries = @ + 1, !.retries = @ + 1,
                   !.failed = Append(@, e), !.last_error = e,
                   !.delay = BackoffMs * (2 ^ c.retries)]

\* the Err(e) arm: last_error and retries are updated; past max_retries the
\* loop breaks and the error is returned, else the backoff sleep starts
on_error(c, e) ==
    IF c.retries + 1 > max_retries
    THEN [c EXCEPT !.pc = "returned", !.tries = @ + 1, !.retries = @ + 1,
                   !.failed = Append(@, e), !.last_error = e, !.ret = Err(e)]
    ELSE [c EXCEPT !.pc = "sleep", !.tries = @ + 1, !.retries = @ + 1,
                   !.failed = Append(@, e), !.last_error = e,
                   !.delay = BackoffMs * (c.retries + 1)]

\* mutant: a transport error is returned at once, without retrying
test_login_try_noretry(c, sent) ==
    IF sent.ok THEN on_response(c, sent.response)
    ELSE [c EXCEPT !.pc = "returned", !.tries = @ + 1, !.retries = @ + 1,
                   !.failed = Append(@, sent.error), !.last_error = sent.error,
                   !.ret = Err(sent.error)]

\* mutant: a response with a non-2xx status is retried while retries remain
test_login_try_retry_on_status(c, sent) ==
    IF sent.ok
    THEN IF is_success(sent.response.status) \/ c.retries + 1 > max_retries
         THEN on_response(c, sent.response)
         ELSE [c EXCEPT !.pc = "sleep", !.tries = @ + 1, !.retries = @ + 1,
                        !.answered = Append(@, sent.response),
                        !.delay = BackoffMs * (c.retries + 1)]
    ELSE on_error(c, sent.error)

\* one iteration of `while retries <= self.max_retries`, given what
\* send_login_request returned
test_login_try(c, sent) ==
    IF sent.ok THEN on_response(c, sent.response) ELSE on_error(c, sent.error)

\* sleep(delay).await is over: back to the loop head
test_login_wake(c) ==
    [c EXCEPT !.pc = "send", !.slept = Append(@, c.delay), !.delay = 0]

RECURSIVE run_test_login(_, _, _)
\* a whole test_login call, given the network's answer to each request
run_test_login(c, cookie, nets) ==
    IF c.pc = "returned" \/ nets = <<>> THEN c
    ELSE IF c.pc = "sleep" THEN run_test_login(test_login_wake(c), cookie, nets)
    ELSE run_test_login(test_login_try(c, send_login_request(cookie, Head(nets))),
                        cookie, Tail(nets))

\* the Result<Response> a caller of test_login gets
test_login(cookie, nets) == run_test_login(NewCall, cookie, nets).ret

(***************************************************************************)
(* The sweep: RedFoxScanner::scan and its four strategies.                 *)
(***************************************************************************)
ChannelCapacity == 1000
retry_count == 3
aggressive_retry_delay == 100
attack_retry_delay == 100

UserNames == <<"admin", "root", "admin", "guest">>
PasswordNames == <<"123456", "letmein", "123456">>

\* the lists the input loader hands over: order kept, duplicates kept
UserList(n) == [i \in 1..n |-> UserNames[((i - 1) % Len(UserNames)) + 1]]
PasswordList(n) == [i \in 1..n |-> PasswordNames[((i - 1) % Len(PasswordNames)) + 1]]

Modes == {"Fast", "Normal", "Stealth", "Aggressive"}

\* total_attempts
total_attempts == Len(users) * Len(passwords)

\* the k-th pair of `for username in us { for password in ps {..} }`
PairAt(us, ps, k) ==
    [ username |-> us[((k - 1) \div Len(ps)) + 1],
      password |-> ps[((k - 1) % Len(ps)) + 1] ]

\* answers of the target during a sweep
OkDenied == Response(200, NoHeader, Body(AccessDenied))
RedirectDashboard == Response(302, Header(DashboardPath), Body(<<>>))
SweepResponses == {OkDenied, RedirectDashboard}

\* what the network does during one test_login call of a sweep: an answer at
\* once, an answer after a failed try, or max_retries + 1 failed tries
SweepRuns ==
    {<<NetResponse(r)>> : r \in SweepResponses}
    \cup {<<NetError("connect"), NetResponse(r)>> : r \in SweepResponses}
    \cup {[i \in 1..(max_retries + 1) |-> NetError("timeout")]}

\* a sequential Aggressive sweep is also given a plain refusal as answer
Unauthorized == Response(401, NoHeader, Body(AccessDenied))
AggressiveRuns == SweepRuns \cup {<<NetResponse(Unauthorized)>>}

\* the `match client.test_login(..)` arms that build a ScanResult; response
\* records which response the result was built from
scan_result(username, password, ret) ==
    IF ret.ok
    THEN [ username |-> username, password |-> password,
           success |-> is_success(ret.response.status),
           status_code |-> ret.response.status, error |-> NoError,
           response |-> ret.response ]
    ELSE [ username |-> username, password |-> password, success |-> FALSE,
           status_code |-> 0, error |-> ret.error, response |-> NoResponse ]

\* the record kept of a test_login call that has returned
call_record(pair, ret) == [username |-> pair.username, password |-> pair.password, ok |-> ret.ok]

\* mutant: acquire never waits
can_acquire_always(p) == TRUE

\* Semaphore::acquire completes only while a permit is available
can_acquire(p) == p > 0

Max(a, b) == IF a >= b THEN a ELSE b
Min(a, b) == IF a <= b THEN a ELSE b

\* (self.users.len() / self.max_workers).max(1)
chunk_size(n, w) == Max(n \div w, 1)

\* mutant: no more chunks than workers
num_chunks_capped(n, size) == Min((n + size - 1) \div size, max_workers)

\* number of chunks of slice::chunks(size) over n items
num_chunks(n, size) == (n + size - 1) \div size

\* the k-th chunk of slice::chunks(size)
chunk(us, size, k) == SubSeq(us, (k - 1) * size + 1, Min(k * size, Len(us)))

(***************************************************************************)
(* ProgressTracker (progress.rs).  percentage() is computed in f64; the     *)
(* model computes it over exact fractions, kept in lowest terms.            *)
(***************************************************************************)
RECURSIVE GCD(_, _)
GCD(a, b) == IF b = 0 THEN a ELSE GCD(b, a % b)

\* the fraction a / b, b > 0
Fraction(a, b) == LET g == GCD(a, b) IN [num |-> a \div g, den |-> b \div g]

\* x * k
Scaled(x, k) == Fraction(x.num * k, x.den)

NoReading == [num |-> 0, den |-> 0]

\* what a call of eta() ends in; NotAsked when none was made since the last
\* update
NotAsked == [kind |-> "not asked", remaining |-> 0]
EtaNone == [kind |-> "none", remaining |-> 0]
EtaSome(remaining) == [kind |-> "some", remaining |-> remaining]
EtaPanic == [kind |-> "panic", remaining |-> 0]
EtaWrapped(deficit) == [kind |-> "wrapped", remaining |-> 0 - deficit]

\* ProgressTracker::new(total_items): the bar exists above 100 items
ProgressTracker_new(total_items) ==
    [ total_items |-> total_items, completed |-> 0,
      bar |-> IF total_items > 100 THEN [present |-> TRUE, pos |-> 0, messages |-> 0]
              ELSE [present |-> FALSE, pos |-> 0, messages |-> 0],
      increments |-> <<>>, read |-> NoReading, eta |-> NotAsked ]

NoTracker == ProgressTracker_new(0)

\* ProgressTracker::update(increment): completed advances; the bar, if any,
\* advances too and gets a message whenever completed is a multiple of 1000
update(t, increment) ==
    LET completed == t.completed + increment
    IN  [t EXCEPT !.completed = completed,
                  !.bar = IF t.bar.present
                          THEN [present |-> TRUE, pos |-> t.bar.pos + increment,
                                messages |-> IF completed % 1000 = 0
                                             THEN t.bar.messages + 1 ELSE t.bar.messages]
                          ELSE t.bar,
                  !.increments = Append(@, increment),
                  !.read = NoReading,
                  !.eta = NotAsked]

\* ProgressTracker::eta: None before anything is completed; else the items
\* left, total_items - completed in usize, are divided by the speed so far
\* (which is positive, or infinite when no time has passed). The subtraction
\* overflows when completed > total_items: the build with overflow checks
\* panics, the build without them goes on with 2^64 - the deficit.
eta(t) ==
    IF t.completed = 0 THEN {EtaNone}
    ELSE IF t.completed > t.total_items
    THEN {EtaPanic, EtaWrapped(t.completed - t.total_items)}
    ELSE {EtaSome(t.total_items - t.completed)}

\* mutant: the quotient is taken over the integers
percentage_integer_quotient(t) ==
    IF t.total_items = 0 THEN Fraction(100, 1)
    ELSE Scaled(Fraction(t.completed \div t.total_items, 1), 100)

\* ProgressTracker::percentage
percentage(t) ==
    IF t.total_items = 0 THEN Fraction(100, 1)
    ELSE Scaled(Fraction(t.completed, t.total_items), 100)

\* what is kept of the current pair of an Aggressive sweep: for each
\* test_login call made for it, the tries and the backoff sleeps of the call,
\* and the pair-level delays taken
NoPairLog == [attempts |-> <<>>, delays |-> <<>>]

\* a test_login call has returned
logged_call(log, c) ==
    [log EXCEPT !.attempts = Append(@, [tries |-> c.tries, slept |-> c.slept])]

\* a pair-level delay has been taken
logged_delay(log, ms) == [log EXCEPT !.delays = Append(@, ms)]

(***************************************************************************)
(* Values the variables of a component hold while another one runs.        *)
(***************************************************************************)
ClassifierIdle ==
    /\ cl_resp = NoResponse
    /\ cl_done = FALSE
    /\ cl_verdict = FALSE

\* HttpClient::new(base_url, timeout_secs, proxy): Proxy::all rejects a proxy
\* URL it cannot parse, and `?` returns the error; else the client is built
\* with max_retries = 3 and no cookies
NoProxy == "none"
InvalidProxyUrl == "not a url"
ProxyUrls == {"http://127.0.0.1:8080", InvalidProxyUrl}
HttpClient_new(base_url, timeout_secs, proxy) ==
    IF proxy = InvalidProxyUrl
    THEN [ok |-> FALSE, client |-> << >>, cookies |-> NoCookie]
    ELSE [ ok |-> TRUE,
           client |-> [ base_url |-> base_url, request_timeout |-> timeout_secs,
                        proxy |-> proxy, max_retries |-> max_retries ],
           cookies |-> NoCookie ]

\* no client is looked at
NoClient == [base_url |-> "", request_timeout |-> 0, proxy |-> NoProxy, max_retries |-> 0]

LoginIdle ==
    /\ call = NewCall
    /\ cookies = NoCookie
    /\ http_client = NoClient

\* an input of RedFoxScanner::new: the string given, and the file, if any,
\* that the string names as a path
Source(text, exists, content) == [text |-> text, exists |-> exists, content |-> content]
NoSource == Source(<<>>, FALSE, <<>>)

InputIdle ==
    /\ user_input = NoSource
    /\ password_file = NoSource

Counts(to_spawn, pending, queued, received) ==
    [ total |-> to_spawn + pending + queued + received, to_spawn |-> to_spawn,
      pending |-> pending, queued |-> queued, received |-> received ]

SweepState(position) ==
    /\ pc = position
    /\ permits = 0
    /\ workers = <<>>
    /\ shared = <<>>
    /\ producer = "unspawned"
    /\ spawned = 0
    /\ tasks = <<>>
    /\ chan = <<>>
    /\ senders = 0
    /\ consumer = "unspawned"
    /\ local_results = <<>>
    /\ cur = 1
    /\ attempt = 0
    /\ last_error = NoError
    /\ results = <<>>
    /\ pb = 0
    /\ calls = {}
    /\ in_flight = 0
    /\ paced_ms = 0
    /\ ch = Counts(0, 0, 0, 0)
    /\ precheck = <<>>
    /\ tracker = NoTracker
    /\ pair_log = NoPairLog

SweepIdle ==
    /\ users = <<>>
    /\ passwords = <<>>
    /\ max_workers = 0
    /\ attack_mode = "Normal"
    /\ InputIdle
    /\ SweepState("idle")

(***************************************************************************)
(* SpecClassify: is_success_response applied to one response.              *)
(***************************************************************************)
InitClassify ==
    /\ cl_resp \in ClassifierInputs
    /\ cl_done = FALSE
    /\ cl_verdict = FALSE
    /\ LoginIdle
    /\ SweepIdle

Classify ==
    /\ ~cl_done
    /\ cl_done' = TRUE
    /\ cl_verdict' = is_success_response(cl_resp)
    /\ UNCHANGED <<cl_resp, tlVars, swVars>>

NextClassify == Classify

SpecClassify == InitClassify /\ [][NextClassify]_vars

(***************************************************************************)
(* SpecLogin: one test_login call, one send_login_request at a time.       *)
(***************************************************************************)
LoginResponses ==
    { OkDenied, RedirectDashboard,
      Response(401, NoHeader, Body(WelcomeCap)),
      Response(500, NoHeader, BrokenBody) }

TransportErrors == {"connect", "timeout", "tls"}

NetOutcomes ==
    {NetResponse(r) : r \in LoginResponses} \cup {NetError(e) : e \in TransportErrors}

InitLogin ==
    /\ call = NewCall
    /\ cookies = NoCookie
    /\ http_client = NoClient
    /\ ClassifierIdle
    /\ SweepIdle

CookieValues == {ValidCookie, InvalidCookie}

\* the client is configured with a cookie string before it is used
SetCookies ==
    /\ call = NewCall
    /\ cookies = NoCookie
    /\ \E value \in CookieValues : cookies' = set_cookies(value)
    /\ UNCHANGED <<call, http_client, clVars, swVars>>

\* the loop body runs: a request is sent and answered, or fails
LoginTry ==
    /\ call.pc = "send"
    /\ call.retries <= max_retries
    /\ \E net \in NetOutcomes :
         call' = test_login_try(call, send_login_request(cookies, net))
    /\ UNCHANGED <<cookies, http_client, clVars, swVars>>

\* the backoff sleep ends
LoginWake ==
    /\ call.pc = "sleep"
    /\ call' = test_login_wake(call)
    /\ UNCHANGED <<cookies, http_client, clVars, swVars>>

NextLogin == SetCookies \/ LoginTry \/ LoginWake

SpecLogin == InitLogin /\ [][NextLogin]_vars

(***************************************************************************)
(* Spec: RedFoxScanner::scan.  A test_login call touches nothing shared,   *)
(* so a worker's call is one step: it draws the network's behaviour from   *)
(* SweepRuns and runs test_login to its return.  The progress bar is on    *)
(* (verbose = true).                                                       *)
(***************************************************************************)
Init ==
    /\ \E nu \in 0..MaxUsers, np \in 0..MaxPasswords :
         /\ nu * np <= MaxPairs
         /\ users = UserList(nu)
         /\ passwords = PasswordList(np)
    /\ max_workers \in 0..MaxWorkers
    /\ attack_mode \in Modes
    /\ InputIdle
    /\ SweepState("start")
    /\ ClassifierIdle
    /\ LoginIdle

base == <<clVars, tlVars, cfgVars, inVars, ch>>
others == <<base, precheck, tracker, pair_log>>
rest == <<base, precheck, tracker>>

\* scan(): the semaphore is created and the strategy of attack_mode entered.
\* scan_fast computes chunk_size first: the division panics on max_workers = 0.
\* scan_normal spawns the producer (holding a clone of tx) and the consumer.
Scan ==
    /\ pc = "start"
    /\ permits' = max_workers
    /\ pc' = CASE attack_mode = "Fast" ->
                    IF max_workers = 0 THEN "panicked" ELSE "fast_spawn"
               [] attack_mode = "Normal" -> "normal_await_producer"
               [] attack_mode = "Stealth" -> "stealth"
               [] attack_mode = "Aggressive" -> "aggressive"
    /\ IF attack_mode = "Normal"
       THEN producer' = "running" /\ consumer' = "running" /\ senders' = 2
       ELSE UNCHANGED <<producer, consumer, senders>>
    /\ UNCHANGED <<others, ghostVars, fastVars, spawned, tasks, chan, local_results, cur,
                   aggVars, results, pb>>

(* ------------------------------ scan_fast ------------------------------ *)
fast_chunk_size == chunk_size(Len(users), max_workers)
fast_chunks == num_chunks(Len(users), fast_chunk_size)

\* a chunk task that has nothing (left) to iterate goes on to the merge
WorkerPc(w, k) ==
    IF k > Len(w.chunk_users) * Len(passwords) THEN "extend" ELSE "acquire"

\* for chunk in self.users.chunks(chunk_size) { tokio::spawn(..) }
FastSpawn ==
    /\ pc = "fast_spawn"
    /\ Len(workers) < fast_chunks
    /\ LET w == [ chunk_users |-> chunk(users, fast_chunk_size, Len(workers) + 1),
                  k |-> 1, wpc |-> "acquire", chunk_results |-> <<>> ]
       IN  workers' = Append(workers, [w EXCEPT !.wpc = WorkerPc(w, 1)])
    /\ UNCHANGED <<others, ghostVars, pc, permits, shared, normalVars, cur, aggVars, results, pb>>

\* let _permit = semaphore.acquire().await
FastAcquire(i) ==
    /\ workers[i].wpc = "acquire"
    /\ can_acquire(permits)
    /\ permits' = permits - 1
    /\ workers' = [workers EXCEPT ![i].wpc = "holding"]
    /\ in_flight' = in_flight + 1
    /\ UNCHANGED <<others, calls, paced_ms, pc, shared, normalVars, cur, aggVars, results, pb>>

\* test_login returns; the ScanResult is pushed, the bar advanced, and the
\* permit dropped at the end of the loop body
FastAttempt(i) ==
    /\ workers[i].wpc = "holding"
    /\ \E nets \in SweepRuns :
         LET w == workers[i]
             pair == PairAt(w.chunk_users, passwords, w.k)
             ret == test_login(NoCookie, nets)
             r == scan_result(pair.username, pair.password, ret)
         IN  /\ workers' = [workers EXCEPT ![i] =
                    [w EXCEPT !.chunk_results = Append(@, r), !.k = w.k + 1,
                              !.wpc = WorkerPc(w, w.k + 1)]]
             /\ calls' = calls \cup {call_record(pair, ret)}
    /\ in_flight' = in_flight - 1
    /\ pb' = pb + 1
    /\ permits' = permits + 1
    /\ UNCHANGED <<others, paced_ms, pc, shared, normalVars, cur, aggVars, results>>

\* results_ref.lock().await.extend(chunk_results)
FastExtend(i) ==
    /\ workers[i].wpc = "extend"
    /\ shared' = shared \o workers[i].chunk_results
    /\ workers' = [workers EXCEPT ![i].wpc = "finished"]
    /\ UNCHANGED <<others, ghostVars, pc, permits, normalVars, cur, aggVars, results, pb>>

\* every handle is awaited, then the shared vector is cloned and returned
FastJoin ==
    /\ pc = "fast_spawn"
    /\ Len(workers) = fast_chunks
    /\ \A i \in 1..Len(workers) : workers[i].wpc = "finished"
    /\ results' = shared
    /\ pc' = "done"
    /\ UNCHANGED <<others, ghostVars, permits, fastVars, normalVars, cur, aggVars, pb>>

(* ----------------------------- scan_normal ----------------------------- *)
\* mutant: the producer spawns a task only while fewer than max_workers run
ProducerSpawn_bounded ==
    /\ producer = "running"
    /\ spawned < total_attempts
    /\ in_flight < max_workers
    /\ tasks' = Append(tasks, [ pair |-> PairAt(users, passwords, spawned + 1),
                                tpc |-> "running" ])
    /\ spawned' = spawned + 1
    /\ senders' = senders + 1
    /\ in_flight' = in_flight + 1
    /\ UNCHANGED <<others, calls, paced_ms, pc, permits, fastVars, producer, chan,
                   consumer, local_results, cur, aggVars, results, pb>>

\* the producer spawns the task of the next pair, giving it a clone of tx
ProducerSpawn ==
    /\ producer = "running"
    /\ spawned < total_attempts
    /\ tasks' = Append(tasks, [ pair |-> PairAt(users, passwords, spawned + 1),
                                tpc |-> "running" ])
    /\ spawned' = spawned + 1
    /\ senders' = senders + 1
    /\ in_flight' = in_flight + 1
    /\ UNCHANGED <<others, calls, paced_ms, pc, permits, fastVars, producer, chan, consumer,
                   local_results, cur, aggVars, results, pb>>

\* the loops of the producer are over: the task ends and drops its tx
ProducerFinish ==
    /\ producer = "running"
    /\ spawned = total_attempts
    /\ producer' = "finished"
    /\ senders' = senders - 1
    /\ UNCHANGED <<others, ghostVars, pc, permits, fastVars, spawned, tasks, chan, consumer,
                   local_results, cur, aggVars, results, pb>>

\* a pair's task: test_login returns and tx.send(..) goes through (it waits
\* while the channel is full); the task ends and drops its tx
TaskRun(t) ==
    /\ tasks[t].tpc = "running"
    /\ Len(chan) < ChannelCapacity
    /\ \E nets \in SweepRuns :
         LET ret == test_login(NoCookie, nets)
         IN  /\ chan' = Append(chan, [ username |-> tasks[t].pair.username,
                                       password |-> tasks[t].pair.password,
                                       result |-> ret ])
             /\ calls' = calls \cup {call_record(tasks[t].pair, ret)}
    /\ in_flight' = in_flight - 1
    /\ tasks' = [tasks EXCEPT ![t].tpc = "finished"]
    /\ senders' = senders - 1
    /\ UNCHANGED <<others, paced_ms, pc, permits, fastVars, producer, spawned, consumer,
                   local_results, cur, aggVars, results, pb>>

\* mutant: recv() gives None as soon as the queue is empty
recv_none_when_empty(queue, live) == queue = <<>>

\* rx.recv() returns None: the queue is empty and every Sender is dropped
recv_none(queue, live) == queue = <<>> /\ live = 0

\* while let Some(..) = rx.recv().await { local_results.push(..); pb.inc(1) }
ConsumerRecv ==
    /\ consumer = "running"
    /\ chan # <<>>
    /\ LET m == Head(chan)
       IN  local_results' =
               Append(local_results, scan_result(m.username, m.password, m.result))
    /\ chan' = Tail(chan)
    /\ pb' = pb + 1
    /\ UNCHANGED <<others, ghostVars, pc, permits, fastVars, producer, spawned, tasks, senders,
                   consumer, cur, aggVars, results>>

\* the while let ends and the consumer returns local_results
ConsumerFinish ==
    /\ consumer = "running"
    /\ recv_none(chan, senders)
    /\ consumer' = "finished"
    /\ UNCHANGED <<others, ghostVars, pc, permits, fastVars, producer, spawned, tasks, chan,
                   senders, local_results, cur, aggVars, results, pb>>

\* mutant: the producer is awaited but the tx of scan_normal is kept
NormalAwaitProducer_keeps_tx ==
    /\ pc = "normal_await_producer"
    /\ producer = "finished"
    /\ pc' = "normal_await_consumer"
    /\ UNCHANGED <<others, ghostVars, permits, fastVars, normalVars, cur, aggVars,
                   results, pb>>

\* producer.await?; drop(tx)
NormalAwaitProducer ==
    /\ pc = "normal_await_producer"
    /\ producer = "finished"
    /\ senders' = senders - 1
    /\ pc' = "normal_await_consumer"
    /\ UNCHANGED <<others, ghostVars, permits, fastVars, producer, spawned, tasks, chan,
                   consumer, local_results, cur, aggVars, results, pb>>

\* results = consumer.await?
NormalAwaitConsumer ==
    /\ pc = "normal_await_consumer"
    /\ consumer = "finished"
    /\ results' = local_results
    /\ pc' = "done"
    /\ UNCHANGED <<others, ghostVars, permits, fastVars, normalVars, cur, aggVars, pb>>

(* ----------------------------- scan_stealth ---------------------------- *)
\* let delay = Duration::from_millis(100)
scan_stealth_delay == 100

\* mutant: the call of a pair is started and the loops move on to the next
StealthStart_spawns ==
    /\ pc = "stealth"
    /\ cur <= total_attempts
    /\ in_flight' = in_flight + 1
    /\ cur' = cur + 1
    /\ UNCHANGED <<others, calls, paced_ms, pc, permits, fastVars, normalVars, aggVars,
                   results, pb>>

\* the loops reach the next pair and its test_login call starts
StealthStart ==
    /\ pc = "stealth"
    /\ cur <= total_attempts
    /\ in_flight' = in_flight + 1
    /\ pc' = "stealth_call"
    /\ UNCHANGED <<others, calls, paced_ms, permits, fastVars, normalVars, cur, aggVars,
                   results, pb>>

\* mutant: an exhausted call makes the sweep return at once (`?`), without
\* a ScanResult for the pair
StealthAttempt_abort_on_error ==
    /\ pc = "stealth_call"
    /\ \E nets \in SweepRuns :
         LET pair == PairAt(users, passwords, cur)
             ret == test_login(NoCookie, nets)
         IN  /\ results' = IF ret.ok
                           THEN Append(results,
                                    scan_result(pair.username, pair.password, ret))
                           ELSE results
             /\ pc' = IF ret.ok THEN "stealth_sleep" ELSE "done"
             /\ pb' = IF ret.ok THEN pb + 1 ELSE pb
             /\ calls' = calls \cup {call_record(pair, ret)}
    /\ in_flight' = in_flight - 1
    /\ UNCHANGED <<others, paced_ms, permits, fastVars, normalVars, cur, aggVars>>

\* test_login returns; the ScanResult is pushed and the bar advanced
StealthAttempt ==
    /\ pc = "stealth_call"
    /\ \E nets \in SweepRuns :
         LET pair == PairAt(users, passwords, cur)
             ret == test_login(NoCookie, nets)
         IN  /\ results' = Append(results,
                                  scan_result(pair.username, pair.password, ret))
             /\ calls' = calls \cup {call_record(pair, ret)}
    /\ in_flight' = in_flight - 1
    /\ pb' = pb + 1
    /\ pc' = "stealth_sleep"
    /\ UNCHANGED <<others, paced_ms, permits, fastVars, normalVars, cur, aggVars>>

\* mutant: the pacing sleep is taken between two attempts only
StealthSleep_between_only ==
    /\ pc = "stealth_sleep"
    /\ paced_ms' = IF cur < total_attempts THEN paced_ms + scan_stealth_delay ELSE paced_ms
    /\ cur' = cur + 1
    /\ pc' = "stealth"
    /\ UNCHANGED <<others, calls, in_flight, permits, fastVars, normalVars, aggVars,
                   results, pb>>

\* tokio::time::sleep(delay).await, then the next pair
StealthSleep ==
    /\ pc = "stealth_sleep"
    /\ cur' = cur + 1
    /\ pc' = "stealth"
    /\ paced_ms' = paced_ms + scan_stealth_delay
    /\ UNCHANGED <<others, calls, in_flight, permits, fastVars, normalVars, aggVars, results, pb>>

\* Ok(results)
StealthReturn ==
    /\ pc = "stealth"
    /\ cur > total_attempts
    /\ pc' = "done"
    /\ UNCHANGED <<others, ghostVars, permits, fastVars, normalVars, cur, aggVars, results, pb>>

(* ------------------- scan_aggressive (cfg(not(rayon))) ------------------ *)
\* let _permit = semaphore.acquire().await?; last_error = None
AggressiveAcquire ==
    /\ pc = "aggressive"
    /\ cur <= total_attempts
    /\ can_acquire(permits)
    /\ permits' = permits - 1
    /\ attempt' = 0
    /\ last_error' = NoError
    /\ pc' = "aggressive_try"
    /\ in_flight' = in_flight + 1
    /\ pair_log' = NoPairLog
    /\ UNCHANGED <<rest, calls, paced_ms, fastVars, normalVars, cur, results, pb>>

\* mutant: the pair-level delay is taken after every failed attempt
AggressiveTry_sleeps_after_last ==
    /\ pc = "aggressive_try"
    /\ attempt < retry_count
    /\ \E nets \in AggressiveRuns :
         LET pair == PairAt(users, passwords, cur)
             ret == test_login(NoCookie, nets)
         IN  /\ calls' = calls \cup {call_record(pair, ret)}
             /\ pair_log' = logged_call(pair_log, run_test_login(NewCall, NoCookie, nets))
             /\ IF ret.ok
                THEN /\ results' = Append(results,
                                          scan_result(pair.username, pair.password, ret))
                     /\ pc' = "aggressive_after"
                     /\ UNCHANGED <<attempt, last_error>>
                ELSE /\ last_error' = ret.error
                     /\ pc' = "aggressive_sleep"
                     /\ UNCHANGED <<attempt, results>>
    /\ in_flight' = in_flight - 1
    /\ UNCHANGED <<rest, paced_ms, permits, fastVars, normalVars, cur, pb>>

\* one iteration of `for attempt in 0..retry_count`: Ok pushes the result and
\* breaks; Err records last_error and, unless it was the last attempt, sleeps
AggressiveTry ==
    /\ pc = "aggressive_try"
    /\ attempt < retry_count
    /\ \E nets \in AggressiveRuns :
         LET pair == PairAt(users, passwords, cur)
             ret == test_login(NoCookie, nets)
         IN  /\ calls' = calls \cup {call_record(pair, ret)}
             /\ pair_log' = logged_call(pair_log, run_test_login(NewCall, NoCookie, nets))
             /\ IF ret.ok
                THEN /\ results' = Append(results,
                                          scan_result(pair.username, pair.password, ret))
                     /\ pc' = "aggressive_after"
                     /\ UNCHANGED <<attempt, last_error>>
                ELSE /\ last_error' = ret.error
                     /\ IF attempt < retry_count - 1
                        THEN pc' = "aggressive_sleep" /\ UNCHANGED attempt
                        ELSE pc' = "aggressive_after" /\ attempt' = attempt + 1
                     /\ UNCHANGED results
    /\ in_flight' = in_flight - 1
    /\ UNCHANGED <<rest, paced_ms, permits, fastVars, normalVars, cur, pb>>

\* tokio::time::sleep(100 ms).await, then the next attempt
AggressiveSleep ==
    /\ pc = "aggressive_sleep"
    /\ attempt' = attempt + 1
    /\ pc' = "aggressive_try"
    /\ in_flight' = in_flight + 1
    /\ pair_log' = logged_delay(pair_log, aggressive_retry_delay)
    /\ UNCHANGED <<rest, calls, paced_ms, permits, fastVars, normalVars, cur, last_error, results, pb>>

\* mutant: the permit of a pair whose attempts all failed is never dropped
AggressiveAfter_leaks_on_failure ==
    /\ pc = "aggressive_after"
    /\ LET pair == PairAt(users, passwords, cur)
       IN  results' = IF last_error # NoError
                      THEN Append(results,
                               scan_result(pair.username, pair.password, Err(last_error)))
                      ELSE results
    /\ pb' = pb + 1
    /\ permits' = IF attempt = retry_count THEN permits ELSE permits + 1
    /\ cur' = cur + 1
    /\ pc' = "aggressive"
    /\ pair_log' = NoPairLog
    /\ UNCHANGED <<rest, ghostVars, fastVars, normalVars, aggVars>>

\* after the retry loop: `if let Some(e) = last_error` pushes a failed result;
\* the bar advances and the permit is dropped at the end of the loop body
AggressiveAfter ==
    /\ pc = "aggressive_after"
    /\ LET pair == PairAt(users, passwords, cur)
       IN  results' = IF last_error # NoError
                      THEN Append(results,
                               scan_result(pair.username, pair.password, Err(last_error)))
                      ELSE results
    /\ pb' = pb + 1
    /\ permits' = permits + 1
    /\ cur' = cur + 1
    /\ pc' = "aggressive"
    /\ pair_log' = NoPairLog
    /\ UNCHANGED <<rest, ghostVars, fastVars, normalVars, aggVars>>

\* Ok(results)
AggressiveReturn ==
    /\ pc = "aggressive"
    /\ cur > total_attempts
    /\ pc' = "done"
    /\ UNCHANGED <<others, ghostVars, permits, fastVars, normalVars, cur, aggVars, results, pb>>

Next ==
    \/ Scan
    \/ FastSpawn
    \/ \E i \in 1..Len(workers) : FastAcquire(i)
    \/ \E i \in 1..Len(workers) : FastAttempt(i)
    \/ \E i \in 1..Len(workers) : FastExtend(i)
    \/ FastJoin
    \/ ProducerSpawn
    \/ ProducerFinish
    \/ \E t \in 1..Len(tasks) : TaskRun(t)
    \/ ConsumerRecv
    \/ ConsumerFinish
    \/ NormalAwaitProducer
    \/ NormalAwaitConsumer
    \/ StealthStart
    \/ StealthAttempt
    \/ StealthSleep
    \/ StealthReturn
    \/ AggressiveAcquire
    \/ AggressiveTry
    \/ AggressiveSleep
    \/ AggressiveAfter
    \/ AggressiveReturn

Spec == Init /\ [][Next]_vars

(***************************************************************************)
(* Bruteforcer::attack and its strategies (cfg(not(feature = "rayon"))).   *)
(* The producer task and the pair tasks of attack_normal are the           *)
(* statements of scan_normal's: ProducerSpawn, ProducerFinish and TaskRun  *)
(* act for both. Bruteforcer has no semaphore and no progress bar.         *)
(***************************************************************************)
attack_stealth_delay == 500
attack_retries == 3

\* the Err(_) arm of attack_normal and attack_stealth: the error of the call
\* is replaced by a fixed text (the Arabic word for "failed")
FixedErrorText == "failed"
\* mutant: the attacker counts a redirect as a success
attack_result_counts_redirect(username, password, ret) ==
    IF ret.ok
    THEN [scan_result(username, password, ret) EXCEPT !.success = ret.response.status < 400]
    ELSE scan_result(username, password, Err(FixedErrorText))

attack_result(username, password, ret) ==
    IF ret.ok THEN scan_result(username, password, ret)
    ELSE scan_result(username, password, Err(FixedErrorText))

InitAttack ==
    /\ \E nu \in 0..MaxUsers, np \in 0..MaxPasswords :
         /\ nu * np <= MaxPairs
         /\ users = UserList(nu)
         /\ passwords = PasswordList(np)
    /\ max_workers \in 0..MaxWorkers
    /\ attack_mode \in Modes
    /\ InputIdle
    /\ SweepState("attack")
    /\ ClassifierIdle
    /\ LoginIdle

\* Bruteforcer::attack dispatches on the mode; attack_fast runs attack_normal.
\* attack_normal creates the channel and spawns the producer, which owns tx
Attack ==
    /\ pc = "attack"
    /\ pc' = CASE attack_mode \in {"Fast", "Normal"} -> "attack_normal"
               [] attack_mode = "Stealth" -> "attack_stealth"
               [] attack_mode = "Aggressive" -> "attack_aggressive"
    /\ IF attack_mode \in {"Fast", "Normal"}
       THEN producer' = "running" /\ senders' = 1
       ELSE UNCHANGED <<producer, senders>>
    /\ UNCHANGED <<others, ghostVars, permits, fastVars, spawned, tasks, chan, consumer,
                   local_results, cur, aggVars, results, pb>>

\* while let Some(..) = rx.recv().await { results.push(scan_result) }
AttackRecv ==
    /\ pc = "attack_normal"
    /\ chan # <<>>
    /\ LET m == Head(chan)
       IN  results' = Append(results, attack_result(m.username, m.password, m.result))
    /\ chan' = Tail(chan)
    /\ UNCHANGED <<others, ghostVars, pc, permits, fastVars, producer, spawned, tasks,
                   senders, consumer, local_results, cur, aggVars, pb>>

\* rx.recv() returns None and the while let ends
AttackRecvNone ==
    /\ pc = "attack_normal"
    /\ recv_none(chan, senders)
    /\ pc' = "attack_await_producer"
    /\ UNCHANGED <<others, ghostVars, permits, fastVars, normalVars, cur, aggVars,
                   results, pb>>

\* let _ = producer.await; Ok(results): back to the caller, attack() or
\* smart_attack()
AttackAwaitProducer ==
    /\ pc = "attack_await_producer"
    /\ producer = "finished"
    /\ pc' = IF attack_mode = "Smart" THEN "smart_extend" ELSE "attack_done"
    /\ UNCHANGED <<others, ghostVars, permits, fastVars, normalVars, cur, aggVars,
                   results, pb>>

(* ---------------------------- attack_stealth --------------------------- *)
\* the loops reach the next pair and its test_login call starts
AttackStealthStart ==
    /\ pc = "attack_stealth"
    /\ cur <= total_attempts
    /\ in_flight' = in_flight + 1
    /\ pc' = "attack_stealth_call"
    /\ UNCHANGED <<others, calls, paced_ms, permits, fastVars, normalVars, cur, aggVars,
                   results, pb>>

\* test_login returns and the ScanResult is pushed
AttackStealthAttempt ==
    /\ pc = "attack_stealth_call"
    /\ \E nets \in SweepRuns :
         LET pair == PairAt(users, passwords, cur)
             ret == test_login(NoCookie, nets)
         IN  /\ results' = Append(results,
                                  attack_result(pair.username, pair.password, ret))
             /\ calls' = calls \cup {call_record(pair, ret)}
    /\ in_flight' = in_flight - 1
    /\ pc' = "attack_stealth_sleep"
    /\ UNCHANGED <<others, paced_ms, permits, fastVars, normalVars, cur, aggVars, pb>>

\* tokio::time::sleep(delay).await, then the next pair
AttackStealthSleep ==
    /\ pc = "attack_stealth_sleep"
    /\ paced_ms' = paced_ms + attack_stealth_delay
    /\ cur' = cur + 1
    /\ pc' = "attack_stealth"
    /\ UNCHANGED <<others, calls, in_flight, permits, fastVars, normalVars, aggVars,
                   results, pb>>

\* Ok(results)
AttackStealthReturn ==
    /\ pc = "attack_stealth"
    /\ cur > total_attempts
    /\ pc' = "attack_done"
    /\ UNCHANGED <<others, ghostVars, permits, fastVars, normalVars, cur, aggVars,
                   results, pb>>

(* --------------------------- attack_aggressive ------------------------- *)
\* the loops reach the next pair: let mut last_error = None
AttackAggressiveBegin ==
    /\ pc = "attack_aggressive"
    /\ cur <= total_attempts
    /\ attempt' = 0
    /\ last_error' = NoError
    /\ in_flight' = in_flight + 1
    /\ pc' = "attack_aggressive_try"
    /\ pair_log' = NoPairLog
    /\ UNCHANGED <<rest, calls, paced_ms, permits, fastVars, normalVars, cur, results,
                   pb>>

\* one iteration of `for attempt in 0..retries`: Ok pushes the result and
\* breaks; Err records last_error and, unless it was the last attempt, sleeps
AttackAggressiveTry ==
    /\ pc = "attack_aggressive_try"
    /\ attempt < attack_retries
    /\ \E nets \in AggressiveRuns :
         LET pair == PairAt(users, passwords, cur)
             ret == test_login(NoCookie, nets)
         IN  /\ calls' = calls \cup {call_record(pair, ret)}
             /\ pair_log' = logged_call(pair_log, run_test_login(NewCall, NoCookie, nets))
             /\ IF ret.ok
                THEN /\ results' = Append(results,
                                          scan_result(pair.username, pair.password, ret))
                     /\ pc' = "attack_aggressive_after"
                     /\ UNCHANGED <<attempt, last_error>>
                ELSE /\ last_error' = ret.error
                     /\ IF attempt < attack_retries - 1
                        THEN pc' = "attack_aggressive_sleep" /\ UNCHANGED attempt
                        ELSE pc' = "attack_aggressive_after" /\ attempt' = attempt + 1
                     /\ UNCHANGED results
    /\ in_flight' = in_flight - 1
    /\ UNCHANGED <<rest, paced_ms, permits, fastVars, normalVars, cur, pb>>

\* tokio::time::sleep(100 ms).await, then the next attempt
AttackAggressiveSleep ==
    /\ pc = "attack_aggressive_sleep"
    /\ attempt' = attempt + 1
    /\ in_flight' = in_flight + 1
    /\ pc' = "attack_aggressive_try"
    /\ pair_log' = logged_delay(pair_log, attack_retry_delay)
    /\ UNCHANGED <<rest, calls, paced_ms, permits, fastVars, normalVars, cur,
                   last_error, results, pb>>

\* after the retry loop: `if let Some(e) = last_error` pushes a failed result
AttackAggressiveAfter ==
    /\ pc = "attack_aggressive_after"
    /\ LET pair == PairAt(users, passwords, cur)
       IN  results' = IF last_error # NoError
                      THEN Append(results,
                               scan_result(pair.username, pair.password, Err(last_error)))
                      ELSE results
    /\ cur' = cur + 1
    /\ pc' = "attack_aggressive"
    /\ pair_log' = NoPairLog
    /\ UNCHANGED <<rest, ghostVars, permits, fastVars, normalVars, aggVars, pb>>

\* Ok(results)
AttackAggressiveReturn ==
    /\ pc = "attack_aggressive"
    /\ cur > total_attempts
    /\ pc' = "attack_done"
    /\ UNCHANGED <<others, ghostVars, permits, fastVars, normalVars, cur, aggVars,
                   results, pb>>

NextAttack ==
    \/ Attack
    \/ AttackRecv
    \/ AttackRecvNone
    \/ AttackAwaitProducer
    \/ AttackStealthStart
    \/ AttackStealthAttempt
    \/ AttackStealthSleep
    \/ AttackStealthReturn
    \/ AttackAggressiveBegin
    \/ AttackAggressiveTry
    \/ AttackAggressiveSleep
    \/ AttackAggressiveAfter
    \/ AttackAggressiveReturn

(***************************************************************************)
(* SpecSweepsLive: the sweeps of both engines with at least one worker,    *)
(* under a runtime that keeps taking a step while one is possible: a task  *)
(* that can run is run, and a test_login call in progress returns.         *)
(***************************************************************************)
MaxLivePairs == 2   \* largest cross product swept under fairness

InitSweepsLive ==
    /\ Init \/ InitAttack
    /\ max_workers >= 1
    /\ total_attempts <= MaxLivePairs

NextSweepsLive == Next \/ NextAttack

SpecSweepsLive ==
    InitSweepsLive /\ [][NextSweepsLive]_vars /\ WF_vars(NextSweepsLive)

(***************************************************************************)
(* Bruteforcer::smart_attack: a precheck of the common pairs, then the     *)
(* whole attack_normal sweep. attack_mode = "Smart" marks the entry point. *)
(***************************************************************************)
common_users == <<"admin", "administrator", "root", "user", "test">>
common_passwords == <<"admin", "123456", "password", "12345678", "123456789">>

\* Vec::contains
vec_contains(v, x) == \E i \in 1..Len(v) : v[i] = x

\* the k-th pair of the nested loops over the two common lists
CommonPairAt(k) == PairAt(common_users, common_passwords, k)

\* positions from k on whose pair passes both `contains` tests
Eligible(k) ==
    {j \in k..(Len(common_users) * Len(common_passwords)) :
        /\ vec_contains(users, CommonPairAt(j).username)
        /\ vec_contains(passwords, CommonPairAt(j).password)}

First(S) == CHOOSE j \in S : \A i \in S : j <= i

InitSmart ==
    /\ \E nu \in 0..MaxUsers, np \in 0..MaxPasswords :
         /\ nu * np <= MaxPairs
         /\ users = UserList(nu)
         /\ passwords = PasswordList(np)
    /\ max_workers = MaxWorkers
    /\ attack_mode = "Smart"
    /\ InputIdle
    /\ SweepState("smart_precheck")
    /\ ClassifierIdle
    /\ LoginIdle

\* mutant: every precheck attempt that obtains a response adds a ScanResult
precheck_push_any_response(found, pair, ret) ==
    IF ret.ok THEN Append(found, scan_result(pair.username, pair.password, ret))
    ELSE found

\* the match of the precheck: only Ok(response) with a success status pushes
precheck_push(found, pair, ret) ==
    IF ret.ok /\ is_success(ret.response.status)
    THEN Append(found, scan_result(pair.username, pair.password, ret))
    ELSE found

\* the loops over the common lists reach the next pair that passes both
\* `contains` tests; test_login is awaited and matched
SmartPrecheck ==
    /\ pc = "smart_precheck"
    /\ Eligible(cur) # {}
    /\ LET k == First(Eligible(cur))
           pair == CommonPairAt(k)
       IN  /\ \E nets \in AggressiveRuns :
                LET ret == test_login(NoCookie, nets)
                IN  /\ precheck' = precheck_push(precheck, pair, ret)
                    /\ calls' = calls \cup {call_record(pair, ret)}
           /\ cur' = k + 1
    /\ UNCHANGED <<base, tracker, pair_log, in_flight, paced_ms, pc, permits, fastVars, normalVars, aggVars,
                   results, pb>>

\* the loops are over: self.attack_normal() starts, creating the channel and
\* spawning the producer
SmartSweep ==
    /\ pc = "smart_precheck"
    /\ Eligible(cur) = {}
    /\ pc' = "attack_normal"
    /\ producer' = "running"
    /\ senders' = 1
    /\ cur' = 1
    /\ UNCHANGED <<others, ghostVars, permits, fastVars, spawned, tasks, chan, consumer,
                   local_results, aggVars, results, pb>>

\* mutant: the sweep results of pairs found by the precheck are left out
smart_extend_complement(found, normal_results) ==
    LET fresh(r) == \A i \in 1..Len(found) :
                        ~(found[i].username = r.username /\ found[i].password = r.password)
    IN  found \o SelectSeq(normal_results, fresh)

\* results.extend(normal_results)
smart_extend(found, normal_results) == found \o normal_results

\* results.extend(normal_results); Ok(results)
SmartReturn ==
    /\ pc = "smart_extend"
    /\ results' = smart_extend(precheck, results)
    /\ pc' = "smart_done"
    /\ UNCHANGED <<others, ghostVars, permits, fastVars, normalVars, cur, aggVars, pb>>

NextSmart ==
    \/ SmartPrecheck
    \/ SmartSweep
    \/ ProducerSpawn
    \/ ProducerFinish
    \/ \E t \in 1..Len(tasks) : TaskRun(t)
    \/ AttackRecv
    \/ AttackRecvNone
    \/ AttackAwaitProducer
    \/ SmartReturn

SpecSmart == InitSmart /\ [][NextSmart]_vars

(***************************************************************************)
(* SpecSweeps: a sweep of either engine, RedFoxScanner::scan or            *)
(* Bruteforcer::attack.                                                    *)
(***************************************************************************)
InitSweeps == Init \/ InitAttack

NextSweeps == Next \/ NextAttack

SpecSweeps == InitSweeps /\ [][NextSweeps]_vars

(***************************************************************************)
(* SpecRayon: scan_aggressive as built with the rayon feature.  The pairs  *)
(* are collected in input order and cut into chunks of 1000; a chunk is    *)
(* worked through pair by pair, and the chunk results are concatenated in  *)
(* chunk order.  The sweeps of the model fit in the first chunk.  The call *)
(* of test_login is taken as giving its Result.                            *)
(***************************************************************************)
RayonChunk == 1000
rayon_retry_delay == 50

InitRayon ==
    /\ \E nu \in 0..MaxUsers, np \in 0..MaxPasswords :
         /\ nu * np <= MaxPairs
         /\ users = UserList(nu)
         /\ passwords = PasswordList(np)
    /\ max_workers \in 0..MaxWorkers
    /\ attack_mode = "Aggressive"
    /\ InputIdle
    /\ SweepState("rayon_chunk")
    /\ ClassifierIdle
    /\ LoginIdle

\* mutant: every failed pair-level attempt pushes a failed ScanResult
rayon_arm_push_each_failure(chunk_results, pair, ret, n) ==
    [ chunk_results |-> Append(chunk_results, scan_result(pair.username, pair.password, ret)),
      next_pair |-> ret.ok \/ n >= retry_count - 1,
      sleeps |-> ~ret.ok /\ n < retry_count - 1 ]

\* the three arms of the match on test_login in attempt n (0, 1, 2): Ok pushes
\* and breaks; Err before the last attempt sleeps; Err in the last attempt
\* pushes the failed result, and the loop is over
rayon_arm(chunk_results, pair, ret, n) ==
    IF ret.ok
    THEN [ chunk_results |-> Append(chunk_results,
                                    scan_result(pair.username, pair.password, ret)),
           next_pair |-> TRUE, sleeps |-> FALSE ]
    ELSE IF n < retry_count - 1
    THEN [ chunk_results |-> chunk_results, next_pair |-> FALSE, sleeps |-> TRUE ]
    ELSE [ chunk_results |-> Append(chunk_results,
                                    scan_result(pair.username, pair.password, ret)),
           next_pair |-> TRUE, sleeps |-> FALSE ]

\* one pair-level attempt of the pair cur of the chunk
RayonTry ==
    /\ pc = "rayon_chunk"
    /\ cur <= Min(total_attempts, RayonChunk)
    /\ \E nets \in AggressiveRuns :
         LET pair == PairAt(users, passwords, cur)
             ret == test_login(NoCookie, nets)
             arm == rayon_arm(local_results, pair, ret, attempt)
         IN  /\ local_results' = arm.chunk_results
             /\ calls' = calls \cup {call_record(pair, ret)}
             /\ cur' = IF arm.next_pair THEN cur + 1 ELSE cur
             /\ attempt' = IF arm.next_pair THEN 0 ELSE attempt
             /\ pc' = IF arm.sleeps THEN "rayon_sleep" ELSE "rayon_chunk"
             /\ paced_ms' = paced_ms
    /\ UNCHANGED <<others, in_flight, permits, fastVars, producer, spawned, tasks, chan,
                   senders, consumer, last_error, results, pb>>

\* std::thread::sleep(50 ms), then the next attempt of the pair
RayonSleep ==
    /\ pc = "rayon_sleep"
    /\ attempt' = attempt + 1
    /\ paced_ms' = paced_ms + rayon_retry_delay
    /\ pc' = "rayon_chunk"
    /\ UNCHANGED <<others, calls, in_flight, permits, fastVars, normalVars, cur, last_error,
                   results, pb>>

\* the chunk is done: results.extend(chunk) and Ok(results)
RayonCollect ==
    /\ pc = "rayon_chunk"
    /\ cur > Min(total_attempts, RayonChunk)
    /\ results' = results \o local_results
    /\ pc' = "done"
    /\ UNCHANGED <<others, ghostVars, permits, fastVars, normalVars, cur, aggVars, pb>>

NextRayon == RayonTry \/ RayonSleep \/ RayonCollect

SpecRayon == InitRayon /\ [][NextRayon]_vars

(***************************************************************************)
(* The input loader (parser.rs) and RedFoxScanner::new.                    *)
(***************************************************************************)
LF == "LF"          \* the line feed character
Comma == ","
Hash == "#"
Space == " "

\* char::is_whitespace, on the characters of the model
is_whitespace(c) == c \in {Space, LF}

RECURSIVE trim_start(_)
trim_start(s) ==
    IF s # <<>> /\ is_whitespace(Head(s)) THEN trim_start(Tail(s)) ELSE s

RECURSIVE trim_end(_)
trim_end(s) ==
    IF s # <<>> /\ is_whitespace(s[Len(s)]) THEN trim_end(SubSeq(s, 1, Len(s) - 1)) ELSE s

\* mutant: only the leading whitespace is removed
trim_leading_only(s) == trim_start(s)

\* str::trim
trim(s) == trim_end(trim_start(s))

RECURSIVE split(_, _)
\* str::split(sep): the pieces between the separators, empty ones included
split(s, sep) ==
    IF \E i \in 1..Len(s) : s[i] = sep
    THEN LET i == CHOOSE i \in 1..Len(s) : s[i] = sep /\ \A j \in 1..(i - 1) : s[j] # sep
         IN  <<SubSeq(s, 1, i - 1)>> \o split(SubSeq(s, i + 1, Len(s)), sep)
    ELSE <<s>>

\* str::lines: the pieces between line feeds; a final empty piece is no line
lines(s) ==
    LET pieces == split(s, LF)
    IN  IF pieces[Len(pieces)] = <<>> THEN SubSeq(pieces, 1, Len(pieces) - 1) ELSE pieces

\* iterator map, over a sequence
MapTrim(items) == [i \in 1..Len(items) |-> trim(items[i])]

is_empty(s) == s = <<>>
starts_with(s, c) == s # <<>> /\ Head(s) = c

ParseOk(items) == [ok |-> TRUE, items |-> items, error |-> NoError]
ParseErr(e) == [ok |-> FALSE, items |-> <<>>, error |-> e]

\* parse_comma_separated
parse_comma_separated(input) ==
    LET keep(s) == ~is_empty(s)
    IN  SelectSeq(MapTrim(split(input, Comma)), keep)

\* parse_multiline
parse_multiline(input) ==
    LET keep(line) == ~is_empty(line)
    IN  SelectSeq(MapTrim(lines(input)), keep)

\* parse_file_contents, given what read_to_string returned
parse_file_contents(content) ==
    LET keep(line) == ~is_empty(line) /\ ~starts_with(line, Hash)
        items == SelectSeq(MapTrim(lines(content)), keep)
    IN  IF is_empty(items) THEN ParseErr("empty file") ELSE ParseOk(items)

\* parse_file, for a path that exists
parse_file(source) == parse_file_contents(source.content)

\* parse_input
parse_input(source) ==
    IF source.exists THEN parse_file(source)
    ELSE IF contains(source.text, <<Comma>>) THEN ParseOk(parse_comma_separated(source.text))
    ELSE IF contains(source.text, <<LF>>) THEN ParseOk(parse_multiline(source.text))
    ELSE ParseOk(<<source.text>>)

InputChars == {"a", Comma, Space, LF, Hash}

RECURSIVE Strings(_)
\* the strings of at most n characters
Strings(n) ==
    IF n = 0 THEN {<<>>}
    ELSE Strings(n - 1) \cup {Append(s, c) : s \in {t \in Strings(n - 1) : Len(t) = n - 1},
                                             c \in InputChars}

\* the inputs of at most n characters: a string that names no file, or a
\* path (never the empty string) that names a file with some content
Sources(n) ==
    {Source(text, FALSE, <<>>) : text \in Strings(n)}
    \cup {Source(<<"a">>, TRUE, content) : content \in Strings(n)}

InitParse ==
    /\ user_input \in Sources(MaxInputLen)
    /\ password_file \in Sources(MaxPasswordInputLen)
    /\ users = <<>>
    /\ passwords = <<>>
    /\ max_workers = 1
    /\ attack_mode = "Normal"
    /\ SweepState("new")
    /\ ClassifierIdle
    /\ LoginIdle

\* let users = parse_input(user_input).await.context(..)?
NewParseUsers ==
    /\ pc = "new"
    /\ LET parsed == parse_input(user_input)
       IN  IF parsed.ok
           THEN users' = parsed.items /\ pc' = "new_passwords"
           ELSE pc' = "new_failed" /\ UNCHANGED users
    /\ UNCHANGED <<clVars, tlVars, inVars, passwords, max_workers, attack_mode, permits,
                   fastVars, normalVars, cur, aggVars, results, pb, ghostVars, ch, precheck, tracker, pair_log>>

\* let passwords = parse_input(password_file).await.context(..)?; Ok(Self {..})
NewParsePasswords ==
    /\ pc = "new_passwords"
    /\ LET parsed == parse_input(password_file)
       IN  IF parsed.ok
           THEN passwords' = parsed.items /\ pc' = "constructed"
           ELSE pc' = "new_failed" /\ UNCHANGED passwords
    /\ UNCHANGED <<clVars, tlVars, inVars, users, max_workers, attack_mode, permits,
                   fastVars, normalVars, cur, aggVars, results, pb, ghostVars, ch, precheck, tracker, pair_log>>

NextParse == NewParseUsers \/ NewParsePasswords

SpecParse == InitParse /\ [][NextParse]_vars

(***************************************************************************)
(* SpecChannel: scan_normal with its channel near capacity. The results    *)
(* are counted, not told apart: ch.to_spawn pairs are left to the          *)
(* producer, ch.pending spawned tasks have not sent, ch.queued results sit *)
(* in the channel and ch.received have been pushed by the consumer.        *)
(***************************************************************************)
MaxBacklog == 2     \* most tasks, and most pairs to spawn, beyond a near-full channel

\* the consumer has not run yet: the channel holds the results of the tasks
\* that have sent, and the other tasks and pairs are still to come
InitChannel ==
    /\ \E to_spawn \in 0..MaxBacklog, pending \in 0..MaxBacklog,
          queued \in (ChannelCapacity - MaxBacklog)..ChannelCapacity :
         /\ ch = Counts(to_spawn, pending, queued, 0)
         /\ senders = 2 + pending
    /\ pc = "normal_await_producer"
    /\ producer = "running"
    /\ consumer = "running"
    /\ users = <<>>
    /\ passwords = <<>>
    /\ max_workers = 1
    /\ attack_mode = "Normal"
    /\ permits = 1
    /\ workers = <<>>
    /\ shared = <<>>
    /\ spawned = 0
    /\ tasks = <<>>
    /\ chan = <<>>
    /\ local_results = <<>>
    /\ cur = 1
    /\ attempt = 0
    /\ last_error = NoError
    /\ results = <<>>
    /\ pb = 0
    /\ calls = {}
    /\ in_flight = 0
    /\ paced_ms = 0
    /\ precheck = <<>>
    /\ tracker = NoTracker
    /\ pair_log = NoPairLog
    /\ InputIdle
    /\ ClassifierIdle
    /\ LoginIdle

chOthers == <<clVars, tlVars, cfgVars, inVars, permits, fastVars, spawned, tasks, chan,
              local_results, cur, aggVars, results, pb, ghostVars, precheck, tracker, pair_log>>

\* the producer spawns the task of the next pair, giving it a clone of tx
ChSpawn ==
    /\ producer = "running"
    /\ ch.to_spawn > 0
    /\ ch' = [ch EXCEPT !.to_spawn = @ - 1, !.pending = @ + 1]
    /\ senders' = senders + 1
    /\ UNCHANGED <<chOthers, pc, producer, consumer>>

\* the loops of the producer are over: the task ends and drops its tx
ChProducerFinish ==
    /\ producer = "running"
    /\ ch.to_spawn = 0
    /\ producer' = "finished"
    /\ senders' = senders - 1
    /\ UNCHANGED <<chOthers, pc, consumer, ch>>

\* mutant: a send on a full channel goes through
can_send_always(queued) == TRUE

\* Sender::send completes only while the channel holds fewer than its
\* capacity; until then the task waits with its result
can_send(queued) == queued < ChannelCapacity

\* a pair's task: tx.send(..).await goes through, the task ends and drops tx
ChSend ==
    /\ ch.pending > 0
    /\ can_send(ch.queued)
    /\ ch' = [ch EXCEPT !.pending = @ - 1, !.queued = @ + 1]
    /\ senders' = senders - 1
    /\ UNCHANGED <<chOthers, pc, producer, consumer>>

\* while let Some(..) = rx.recv().await { local_results.push(..) }
ChRecv ==
    /\ consumer = "running"
    /\ ch.queued > 0
    /\ ch' = [ch EXCEPT !.queued = @ - 1, !.received = @ + 1]
    /\ UNCHANGED <<chOthers, pc, producer, consumer, senders>>

\* rx.recv() returns None: the while let ends, the consumer returns
ChConsumerFinish ==
    /\ consumer = "running"
    /\ ch.queued = 0
    /\ senders = 0
    /\ consumer' = "finished"
    /\ UNCHANGED <<chOthers, pc, producer, senders, ch>>

\* producer.await?; drop(tx)
ChAwaitProducer ==
    /\ pc = "normal_await_producer"
    /\ producer = "finished"
    /\ senders' = senders - 1
    /\ pc' = "normal_await_consumer"
    /\ UNCHANGED <<chOthers, producer, consumer, ch>>

\* results = consumer.await?; Ok(results)
ChAwaitConsumer ==
    /\ pc = "normal_await_consumer"
    /\ consumer = "finished"
    /\ pc' = "done"
    /\ UNCHANGED <<chOthers, producer, consumer, senders, ch>>

NextChannel ==
    \/ ChSpawn
    \/ ChProducerFinish
    \/ ChSend
    \/ ChRecv
    \/ ChConsumerFinish
    \/ ChAwaitProducer
    \/ ChAwaitConsumer

\* the tokio runtime runs every task that is ready: none of the steps stays
\* enabled forever without being taken
ChannelFairness ==
    /\ WF_vars(ChSpawn)
    /\ WF_vars(ChProducerFinish)
    /\ WF_vars(ChSend)
    /\ WF_vars(ChRecv)
    /\ WF_vars(ChConsumerFinish)
    /\ WF_vars(ChAwaitProducer)
    /\ WF_vars(ChAwaitConsumer)

SpecChannel == InitChannel /\ [][NextChannel]_vars /\ ChannelFairness

(***************************************************************************)
(* Properties.                                                             *)
(***************************************************************************)
Range(f) == {f[i] : i \in DOMAIN f}

\* number of ScanResults of rs for the credential pair (u, p)
PairCount(rs, u, p) ==
    Cardinality({i \in 1..Len(rs) : rs[i].username = u /\ rs[i].password = p})

\* number of (username position, password position) holding the pair (u, p)
Positions(u, p) ==
    Cardinality({ij \in (1..Len(users)) \X (1..Len(passwords)) :
                    users[ij[1]] = u /\ passwords[ij[2]] = p})

\* rs holds one ScanResult per position of the cross product, and no other
OnePerPosition(rs) ==
    /\ Len(rs) = Len(users) * Len(passwords)
    /\ \A u \in Range(users), p \in Range(passwords) :
         PairCount(rs, u, p) = Positions(u, p)

\* C1: when a Fast, Normal or Stealth sweep has returned, the result list
\* holds exactly len(usernames) x len(passwords) ScanResults, one for each
\* position of the cross product, whatever the interleaving and the outcomes.
C1_Cardinality ==
    (attack_mode \in {"Fast", "Normal", "Stealth"} /\ pc = "done")
        => OnePerPosition(results)

\* a Normal sweep of three pairs has returned, with a transport failure and a
\* response among its results, delivered in another order than the input's
C1_Witness ==
    /\ attack_mode = "Normal"
    /\ pc = "done"
    /\ Len(results) = 3
    /\ results[1].username # users[1]
    /\ \E i \in 1..Len(results) : results[i].error # NoError
    /\ \E i \in 1..Len(results) : results[i].error = NoError

\* C2: when the sequential Aggressive sweep has returned, every credential
\* pair has contributed exactly one ScanResult, whatever the outcomes of its
\* pair-level attempts were.
C2_OneResultPerPair ==
    (attack_mode = "Aggressive" /\ pc = "done") => OnePerPosition(results)

\* C3: a test_login call that returns an error has issued exactly 4 tries, all
\* of them failed, and the error it returns is the error of the last try.
C3_RetryExhaustion ==
    (call.pc = "returned" /\ ~call.ret.ok)
        => /\ call.tries = 4
           /\ Len(call.failed) = 4
           /\ call.answered = <<>>
           /\ call.ret.error = call.failed[4]

\* a call on a client with a valid cookie has returned an error after a mix
\* of connection errors and timeouts
C3_Witness ==
    /\ cookies = ValidCookie
    /\ call.pc = "returned"
    /\ ~call.ret.ok
    /\ call.failed = <<"connect", "timeout", "connect", "timeout">>
    /\ call.ret.error = "timeout"

\* C4: once a try of test_login has obtained a response, the call has
\* returned that response and issued no further try: the tries are the
\* transport failures before it, plus one.
C4_ResponseEndsCall ==
    (call.answered # <<>>)
        => /\ call.pc = "returned"
           /\ Len(call.answered) = 1
           /\ call.ret = Ok(call.answered[1])
           /\ call.tries = Len(call.failed) + 1

\* a 401 response, obtained on the third try, has been returned
C4_Witness ==
    /\ call.pc = "returned"
    /\ call.ret.ok
    /\ call.ret.response.status = 401
    /\ Len(call.failed) = 2
    /\ call.tries = 3

\* the chunk tasks of scan_fast that hold a permit of the semaphore
PermitHolders == {i \in 1..Len(workers) : workers[i].wpc = "holding"}

\* C5: during a Fast sweep, at most max_workers attempts hold a permit.
C5_PermitBound ==
    attack_mode = "Fast" => Cardinality(PermitHolders) <= max_workers

\* more chunk tasks than permits: max_workers of them hold one, another waits
C5_Witness ==
    /\ attack_mode = "Fast"
    /\ max_workers >= 2
    /\ Len(workers) > max_workers
    /\ Cardinality(PermitHolders) = max_workers
    /\ \E i \in 1..Len(workers) : workers[i].wpc = "acquire"

\* C6: for max_workers >= 1, scan_fast never spawns more than max_workers
\* chunk tasks.
C6_ChunkBound ==
    (attack_mode = "Fast" /\ max_workers >= 1) => Len(workers) <= max_workers

\* C7: every ScanResult built from an obtained response has success equal to
\* the classifier's verdict for that response.
C7_SuccessIsVerdict ==
    \A i \in 1..Len(results) :
        results[i].error = NoError
            => results[i].success = is_success_response(results[i].response)

\* C8: the classifier returns success for every 2xx response, whatever its
\* Location header and body.
C8_SuccessStatus ==
    (cl_done /\ cl_resp.status >= 200 /\ cl_resp.status <= 299) => cl_verdict

\* a 200 response whose body is "access denied" has been classified success
C8_Witness ==
    /\ cl_done
    /\ cl_resp.status = 200
    /\ cl_resp.body = Body(AccessDenied)
    /\ cl_verdict

ThreeXX(status) == status >= 300 /\ status <= 399

\* C9: a 3xx response carrying a Location header is classified success iff
\* the Location value contains none of "login", "error", "fail".
C9_RedirectRule ==
    (cl_done /\ ThreeXX(cl_resp.status) /\ cl_resp.location.present)
        => (cl_verdict <=> /\ ~contains(cl_resp.location.value, LoginWord)
                           /\ ~contains(cl_resp.location.value, ErrorWord)
                           /\ ~contains(cl_resp.location.value, FailWord))

Occurrences(s, pat) ==
    Cardinality({i \in 1..(Len(s) - Len(pat) + 1) : SubSeq(s, i, i + Len(pat) - 1) = pat})

RECURSIVE TotalOccurrences(_, _, _)
\* occurrences in s of the first k indicators of the list, added up
TotalOccurrences(indicators, s, k) ==
    IF k = 0 THEN 0
    ELSE TotalOccurrences(indicators, s, k - 1) + Occurrences(s, indicators[k])

Scored(response) ==
    /\ ~(response.status >= 200 /\ response.status <= 299)
    /\ ~ThreeXX(response.status)

\* C11: a response whose status is neither 2xx nor 3xx is classified success
\* iff the success indicators occur strictly more often in its lower-cased
\* body than the failure indicators; a tie, also 0 to 0, is a failure.
C11_KeywordRule ==
    (cl_done /\ Scored(cl_resp) /\ cl_resp.body.readable)
        => LET lower == to_lowercase(cl_resp.body.text)
               good == TotalOccurrences(success_indicators, lower, Len(success_indicators))
               bad == TotalOccurrences(failure_indicators, lower, Len(failure_indicators))
           IN  /\ cl_verdict <=> good > bad
               /\ (good = bad) => ~cl_verdict

\* a 401 response whose body "Welcomeerror" scores 1 to 1 is a failure
C11_Witness ==
    /\ cl_done
    /\ cl_resp.status = 401
    /\ cl_resp.body = Body(WelcomeCap \o ErrorWord)
    /\ ~cl_verdict

\* C13: the classifier returns a boolean for every response, and failure
\* when it reaches the body of a response and the body cannot be read.
C13_UnreadableBodyFails ==
    /\ cl_verdict \in BOOLEAN
    /\ (/\ cl_done
        /\ ~(cl_resp.status >= 200 /\ cl_resp.status <= 299)
        /\ ~(ThreeXX(cl_resp.status) /\ cl_resp.location.present)
        /\ ~cl_resp.body.readable)
           => ~cl_verdict

\* a 500 response and a 302 response without Location, both with a body that
\* cannot be read, are failures
C13_Witness ==
    /\ cl_done
    /\ cl_resp.status \in {302, 500}
    /\ ~cl_resp.location.present
    /\ cl_resp.body = BrokenBody
    /\ ~cl_verdict


\* C15: a cookie string that is no valid header value is rejected when the
\* client is configured with it: no client holds it, so no test_login call
\* runs a try, sleeps a backoff or returns an error because of it.
C15_InvalidCookieFatal ==
    /\ cookies # InvalidCookie
    /\ \A i \in 1..Len(call.failed) : call.failed[i] # "invalid header value"
    /\ call.ret.error # "invalid header value"

\* the client holds the invalid cookie, and a test_login call on it has failed
\* four times on the header, slept the three backoffs and returned the error
C15_InvalidCookieRetried ==
    /\ cookies = InvalidCookie
    /\ call.pc = "returned"
    /\ call.failed = [i \in 1..4 |-> "invalid header value"]
    /\ call.slept = <<200, 400, 600>>
    /\ call.ret = Err("invalid header value")


(***************************************************************************)
(* SpecBatch: HttpClient::send_batch(credentials, concurrency).  The        *)
(* credentials are the pairs of users x passwords, in that order;           *)
(* max_workers holds the concurrency argument.                              *)
(***************************************************************************)
BatchAnswers ==
    {NetResponse(r) : r \in SweepResponses \cup {Unauthorized}} \cup {NetError("timeout")}

\* the two arms of the match on client.post(..).send().await
batch_tuple(pair, net) ==
    IF net.kind = "response"
    THEN [ username |-> pair.username, password |-> pair.password,
           success |-> is_success(net.response.status),
           status_code |-> net.response.status ]
    ELSE [ username |-> pair.username, password |-> pair.password,
           success |-> FALSE, status_code |-> 0 ]

InitBatch ==
    /\ \E nu \in 0..MaxUsers, np \in 0..MaxPasswords :
         /\ nu * np <= MaxPairs
         /\ users = UserList(nu)
         /\ passwords = PasswordList(np)
    /\ max_workers \in 1..MaxWorkers
    /\ attack_mode = "Normal"
    /\ InputIdle
    /\ SweepState("batch")
    /\ ClassifierIdle
    /\ LoginIdle

\* let semaphore = Arc::new(Semaphore::new(concurrency))
BatchStart ==
    /\ pc = "batch"
    /\ permits' = max_workers
    /\ pc' = "batch_spawn"
    /\ UNCHANGED <<others, ghostVars, fastVars, normalVars, cur, aggVars, results, pb>>

\* for (username, password) in credentials { tasks.push(tokio::spawn(..)) }
BatchSpawn ==
    /\ pc = "batch_spawn"
    /\ Len(tasks) < total_attempts
    /\ tasks' = Append(tasks, [ tpc |-> "acquire", requests |-> <<>>,
                                pair |-> PairAt(users, passwords, Len(tasks) + 1) ])
    /\ UNCHANGED <<others, ghostVars, pc, permits, fastVars, producer, spawned, chan, senders,
                   consumer, local_results, cur, aggVars, results, pb>>

\* the loop over the credentials is over
BatchSpawned ==
    /\ pc = "batch_spawn"
    /\ Len(tasks) = total_attempts
    /\ pc' = "batch_collect"
    /\ UNCHANGED <<others, ghostVars, permits, fastVars, normalVars, cur, aggVars, results, pb>>

\* mutant: a task sends without holding a permit
BatchAcquire_unbounded(t) ==
    /\ tasks[t].tpc = "acquire"
    /\ tasks' = [tasks EXCEPT ![t].tpc = "sending"]
    /\ UNCHANGED <<others, ghostVars, pc, permits, fastVars, producer, spawned, chan, senders,
                   consumer, local_results, cur, aggVars, results, pb>>

\* let _permit = semaphore.acquire().await.unwrap()
BatchAcquire(t) ==
    /\ tasks[t].tpc = "acquire"
    /\ can_acquire(permits)
    /\ permits' = permits - 1
    /\ tasks' = [tasks EXCEPT ![t].tpc = "sending"]
    /\ UNCHANGED <<others, ghostVars, pc, fastVars, producer, spawned, chan, senders,
                   consumer, local_results, cur, aggVars, results, pb>>

\* the request is sent once and answered, or fails; the task ends with its
\* tuple and the permit is dropped
BatchSend(t) ==
    /\ tasks[t].tpc = "sending"
    /\ \E net \in BatchAnswers :
         tasks' = [tasks EXCEPT ![t].tpc = "finished",
                                ![t].requests = Append(@, net)]
    /\ permits' = permits + 1
    /\ UNCHANGED <<others, ghostVars, pc, fastVars, producer, spawned, chan, senders,
                   consumer, local_results, cur, aggVars, results, pb>>

\* for task in tasks { if let Ok(result) = task.await { results.push(result) } }
BatchAwait ==
    /\ pc = "batch_collect"
    /\ cur <= Len(tasks)
    /\ tasks[cur].tpc = "finished"
    /\ results' = Append(results, batch_tuple(tasks[cur].pair, tasks[cur].requests[1]))
    /\ cur' = cur + 1
    /\ UNCHANGED <<others, ghostVars, pc, permits, fastVars, normalVars, aggVars, pb>>

\* Ok(results)
BatchReturn ==
    /\ pc = "batch_collect"
    /\ cur > Len(tasks)
    /\ pc' = "done"
    /\ UNCHANGED <<others, ghostVars, permits, fastVars, normalVars, cur, aggVars, results, pb>>

NextBatch ==
    \/ BatchStart
    \/ BatchSpawn
    \/ BatchSpawned
    \/ \E t \in 1..Len(tasks) : BatchAcquire(t)
    \/ \E t \in 1..Len(tasks) : BatchSend(t)
    \/ BatchAwait
    \/ BatchReturn

SpecBatch == InitBatch /\ [][NextBatch]_vars

(***************************************************************************)
(* SpecProxy: a scanner built by RedFoxScanner::new is given a proxy.       *)
(***************************************************************************)
set_proxy_timeout == 30

BaseUrls == {"http://target/login", "https://target/admin"}
Timeouts == {5, 10, 30}

\* the scanner as RedFoxScanner::new leaves it: HttpClient::new(url, timeout, None)
InitProxy ==
    /\ \E nu \in 0..MaxUsers, np \in 0..MaxPasswords :
         /\ nu * np <= MaxPairs
         /\ users = UserList(nu)
         /\ passwords = PasswordList(np)
    /\ max_workers \in 0..MaxWorkers
    /\ attack_mode \in Modes
    /\ InputIdle
    /\ SweepState("constructed")
    /\ ClassifierIdle
    /\ call = NewCall
    /\ \E url \in BaseUrls, timeout \in Timeouts :
         LET made == HttpClient_new(url, timeout, NoProxy)
         IN  http_client = made.client /\ cookies = made.cookies

\* HttpClient::new(&self.http_client.base_url, 30, Some(proxy_url))
set_proxy(client, proxy_url) == HttpClient_new(client.base_url, set_proxy_timeout, proxy_url)

\* scanner.set_proxy(proxy_url): `?` returns the error before the assignment
SetProxy ==
    /\ pc = "constructed"
    /\ \E proxy_url \in ProxyUrls :
         LET made == set_proxy(http_client, proxy_url)
         IN  IF made.ok
             THEN /\ http_client' = made.client
                  /\ cookies' = made.cookies
                  /\ pc' = "proxy_set"
             ELSE /\ pc' = "proxy_failed"
                  /\ UNCHANGED <<http_client, cookies>>
    /\ UNCHANGED <<clVars, call, cfgVars, inVars, permits, fastVars, normalVars, cur, aggVars,
                   results, pb, ghostVars, ch, precheck, tracker, pair_log>>

NextProxy == SetProxy

SpecProxy == InitProxy /\ [][NextProxy]_vars

(***************************************************************************)
(* SpecProgress: a ProgressTracker is created, updated and read.            *)
(***************************************************************************)
MaxUpdates == 3

Totals == {0, 1, 3, 1000}
Increments == {0, 1, 100, 400}

InitProgress ==
    /\ SweepIdle
    /\ ClassifierIdle
    /\ LoginIdle
    /\ pc = "idle"

\* let mut tracker = ProgressTracker::new(total)
TrackerNew ==
    /\ pc = "idle"
    /\ \E total \in Totals : tracker' = ProgressTracker_new(total)
    /\ pc' = "tracking"
    /\ UNCHANGED <<clVars, tlVars, cfgVars, inVars, permits, fastVars, normalVars, cur,
                   aggVars, results, pb, ghostVars, ch, precheck, pair_log>>

\* tracker.update(k)
TrackerUpdate ==
    /\ pc = "tracking"
    /\ Len(tracker.increments) < MaxUpdates
    /\ \E k \in Increments : tracker' = update(tracker, k)
    /\ UNCHANGED <<clVars, tlVars, cfgVars, inVars, pc, permits, fastVars, normalVars, cur,
                   aggVars, results, pb, ghostVars, ch, precheck, pair_log>>

\* tracker.percentage()
TrackerPercentage ==
    /\ pc = "tracking"
    /\ tracker' = [tracker EXCEPT !.read = percentage(tracker)]
    /\ UNCHANGED <<clVars, tlVars, cfgVars, inVars, pc, permits, fastVars, normalVars, cur,
                   aggVars, results, pb, ghostVars, ch, precheck, pair_log>>

\* tracker.eta()
TrackerEta ==
    /\ pc = "tracking"
    /\ \E outcome \in eta(tracker) : tracker' = [tracker EXCEPT !.eta = outcome]
    /\ UNCHANGED <<clVars, tlVars, cfgVars, inVars, pc, permits, fastVars, normalVars, cur,
                   aggVars, results, pb, ghostVars, ch, precheck, pair_log>>

NextProgress == TrackerNew \/ TrackerUpdate \/ TrackerPercentage \/ TrackerEta

SpecProgress == InitProgress /\ [][NextProgress]_vars

Returned == pc \in {"done", "attack_done"}

\* ScanResults of rs that record a transport failure of the pair (u, p)
FailedResults(rs, u, p) ==
    {i \in 1..Len(rs) : /\ rs[i].username = u /\ rs[i].password = p
                        /\ ~rs[i].success /\ rs[i].status_code = 0
                        /\ rs[i].error # NoError}

\* C14: a test_login call that exhausts its retries never aborts the sweep:
\* when the sweep of any strategy has returned, the pair of every exhausted
\* call has a ScanResult with success = false, status_code 0 and the error
\* set, every pair of the cross product has been attempted, and each position
\* of the cross product has its own ScanResult. No exhausted call leads to
\* the panic of the sweep.
C14_FailureDoesNotAbort ==
    /\ Returned =>
         /\ \A c \in calls : ~c.ok => FailedResults(results, c.username, c.password) # {}
         /\ \A k \in 1..total_attempts :
              LET pair == PairAt(users, passwords, k)
              IN  /\ \E c \in calls : c.username = pair.username /\ c.password = pair.password
                  /\ PairCount(results, pair.username, pair.password)
                         >= Positions(pair.username, pair.password)
    /\ pc = "panicked" => calls = {}

\* a Fast sweep of three pairs has returned: the first pair exhausted its
\* retries and has a failed result, the two other pairs have a response
C14_Witness ==
    /\ attack_mode = "Fast"
    /\ pc = "done"
    /\ total_attempts = 3
    /\ [username |-> users[1], password |-> passwords[1], ok |-> FALSE] \in calls
    /\ Cardinality({i \in 1..Len(results) : results[i].error = NoError}) = 2
    /\ FailedResults(results, users[1], passwords[1]) # {}


ScanStealthPcs == {"stealth", "stealth_call", "stealth_sleep"}
AttackStealthPcs == {"attack_stealth", "attack_stealth_call", "attack_stealth_sleep"}

\* the pacing delay D of the Stealth sweep in progress or returned
StealthDelay ==
    IF pc \in AttackStealthPcs \cup {"attack_done"}
    THEN attack_stealth_delay ELSE scan_stealth_delay

\* C17: in a Stealth sweep one delay of D is taken after each attempt: after
\* n attempts and their delays the accumulated pacing is n x D, and when the
\* sweep over N pairs has returned it is N x D, with N results.
C17_StealthPacing ==
    (attack_mode = "Stealth")
        => /\ (pc \in {"stealth", "attack_stealth"})
                => paced_ms = Len(results) * StealthDelay
           /\ (pc \in {"stealth_sleep", "attack_stealth_sleep"})
                => paced_ms = (Len(results) - 1) * StealthDelay
           /\ Returned => /\ Len(results) = total_attempts
                          /\ paced_ms = total_attempts * StealthDelay
                          /\ paced_ms >= total_attempts * StealthDelay

\* a Stealth scan of three pairs has returned after 300 ms of pacing
C17_Witness ==
    /\ attack_mode = "Stealth"
    /\ pc = "done"
    /\ total_attempts = 3
    /\ Len(results) = 3
    /\ paced_ms = 300

\* C18: in a Stealth sweep at most one test_login call is in flight, and
\* while the call of the pair at position cur is in flight, the cur - 1 pairs
\* before it have their result and their cur - 1 pacing delays have elapsed.
C18_OneAtATime ==
    (attack_mode = "Stealth")
        => /\ in_flight <= 1
           /\ (in_flight = 1)
                => /\ pc \in {"stealth_call", "attack_stealth_call"}
                   /\ Len(results) = cur - 1
                   /\ paced_ms = (cur - 1) * StealthDelay

\* the call of the third pair of a Stealth scan is in flight, after two
\* results, the first of them an exhausted call, and 200 ms of pacing
C18_Witness ==
    /\ attack_mode = "Stealth"
    /\ pc = "stealth_call"
    /\ in_flight = 1
    /\ cur = 3
    /\ Len(results) = 2
    /\ results[1].error # NoError
    /\ paced_ms = 200

NormalSweep ==
    \/ attack_mode = "Normal" /\ pc \in {"normal_await_producer", "normal_await_consumer",
                                          "done", "attack_normal",
                                          "attack_await_producer", "attack_done"}
    \/ attack_mode = "Fast" /\ pc \in {"attack_normal", "attack_await_producer",
                                        "attack_done"}

RunningTasks == {t \in 1..Len(tasks) : tasks[t].tpc = "running"}

\* C19: in a Normal sweep the tasks spawned so far are those of the first
\* pairs of the cross product, one each; while pairs remain the producer can
\* spawn the next one whatever the number of attempts in flight (it never
\* waits); it ends only after spawning all; no permit of the semaphore is
\* ever taken; and the attempts in flight are the spawned tasks that have
\* not handed over their result.
C19_SpawnPerPair ==
    NormalSweep
        => /\ Len(tasks) = spawned
           /\ \A t \in 1..Len(tasks) : tasks[t].pair = PairAt(users, passwords, t)
           /\ (producer = "running" /\ spawned < total_attempts) => ENABLED ProducerSpawn
           /\ (producer = "finished") => spawned = total_attempts
           /\ permits = IF pc \in {"normal_await_producer", "normal_await_consumer", "done"}
                        THEN max_workers ELSE 0
           /\ in_flight = Cardinality(RunningTasks)
           /\ in_flight <= total_attempts

\* a Normal scan with max_workers = 1 has the attempts of all three pairs in
\* flight at once
C19_Witness ==
    /\ attack_mode = "Normal"
    /\ pc = "normal_await_producer"
    /\ max_workers = 1
    /\ total_attempts = 3
    /\ in_flight = 3
    /\ Cardinality(RunningTasks) = 3


\* a source with nothing in it: the empty string, or a file without a line
\* that is neither blank nor a comment
EmptySource(source) ==
    IF source.exists
    THEN \A i \in 1..Len(lines(source.content)) :
             LET line == trim(lines(source.content)[i])
             IN  line = <<>> \/ Head(line) = Hash
    ELSE source.text = <<>>

Blank(item) == \A i \in 1..Len(item) : is_whitespace(item[i])

\* C16: RedFoxScanner::new fails on an empty credential source, so a scanner
\* is never constructed from one, and a constructed scanner has neither an
\* empty list nor a blank username or password.
C16_EmptySourceFails ==
    (pc = "constructed")
        => /\ ~EmptySource(user_input)
           /\ ~EmptySource(password_file)
           /\ users # <<>>
           /\ passwords # <<>>
           /\ \A i \in 1..Len(users) : ~Blank(users[i])
           /\ \A i \in 1..Len(passwords) : ~Blank(passwords[i])

\* a scanner has been constructed from the user_input "," and the empty
\* password_file: no username, and one password that is the empty string
C16_EmptyListsAccepted ==
    /\ pc = "constructed"
    /\ user_input = Source(<<Comma>>, FALSE, <<>>)
    /\ password_file = Source(<<>>, FALSE, <<>>)
    /\ users = <<>>
    /\ passwords = << <<>> >>


\* the channel never holds more than its capacity, and no result is dropped:
\* each pair is still to spawn, held by its task, queued, or received; a
\* task that holds its result while the channel is full cannot send
ChannelSafe ==
    /\ ch.queued <= ChannelCapacity
    /\ ch.to_spawn + ch.pending + ch.queued + ch.received = ch.total
    /\ (ch.pending > 0 /\ ch.queued = ChannelCapacity) => ~ENABLED ChSend
    /\ (consumer = "finished") => ch.received = ch.total

\* C20: in a Normal sweep the channel never holds more than 1000 results; a
\* task whose send finds it full keeps its result and waits; and every
\* result is eventually received by the consumer, which then ends.
C20_BoundedChannel ==
    /\ []ChannelSafe
    /\ <>(ch.received = ch.total /\ consumer = "finished")

\* the consumer has received two results, the channel is full again and two
\* tasks wait with their result
C20_Witness ==
    /\ ch.queued = ChannelCapacity
    /\ ch.pending = 2
    /\ ch.received = 2
    /\ consumer = "running"


AggressiveGivenUp == pc \in {"aggressive_after", "attack_aggressive_after"}

\* C21: in Aggressive a pair is given up only after 3 pair-level attempts or
\* after an attempt with a success verdict (by the status or by the
\* classifier): a response classified as failure is retried like a
\* transport failure.
C21_RetryOnFailedVerdict ==
    AggressiveGivenUp
        => \/ attempt = retry_count
           \/ /\ results # <<>>
              /\ LET r == results[Len(results)]
                 IN  /\ r.error = NoError
                     /\ r.success \/ is_success_response(r.response)

\* the first attempt of a pair got a 401 refusal, a failure for the status
\* rule and for the classifier, and the pair is given up without a retry
C21_NoRetryOnRefusal ==
    /\ pc = "aggressive_after"
    /\ attempt = 0
    /\ last_error = NoError
    /\ results[Len(results)].status_code = 401
    /\ ~results[Len(results)].success


\* the pairs the precheck may attempt
AllowedPair(u, p) ==
    /\ u \in Range(common_users) \cap Range(users)
    /\ p \in Range(common_passwords) \cap Range(passwords)

\* C22: in the precheck of smart_attack only pairs of a common username that
\* is provided and a common password that is provided are attempted; every
\* ScanResult it adds is a success built from a response with a success
\* status, at most one per attempted pair; attempts that fail add none.
C22_PrecheckRestricted ==
    /\ (pc = "smart_precheck")
         => /\ \A c \in calls : AllowedPair(c.username, c.password)
            /\ \A i \in 1..Len(precheck) :
                 [username |-> precheck[i].username, password |-> precheck[i].password,
                  ok |-> TRUE] \in calls
            /\ Len(precheck) <= Cardinality({c \in calls : c.ok})
    /\ \A i \in 1..Len(precheck) :
         /\ precheck[i].success
         /\ is_success(precheck[i].status_code)
         /\ precheck[i].error = NoError
         /\ AllowedPair(precheck[i].username, precheck[i].password)
         /\ PairCount(precheck, precheck[i].username, precheck[i].password) = 1

\* the precheck over admin and root with 123456 is over: the attempt of admin
\* exhausted its retries and added nothing, the one of root succeeded
C22_Witness ==
    /\ pc = "smart_precheck"
    /\ Eligible(cur) = {}
    /\ calls = { [username |-> "admin", password |-> "123456", ok |-> FALSE],
                 [username |-> "root", password |-> "123456", ok |-> TRUE] }
    /\ Len(precheck) = 1
    /\ precheck[1].username = "root"

\* C23: when smart_attack returns, its list is the precheck successes
\* followed by the results of the whole Normal sweep, one per position of
\* the cross product; a pair that succeeded in the precheck is in it at
\* least twice.
C23_FullSweepAfterPrecheck ==
    (pc = "smart_done")
        => /\ Len(results) = Len(precheck) + total_attempts
           /\ SubSeq(results, 1, Len(precheck)) = precheck
           /\ OnePerPosition(SubSeq(results, Len(precheck) + 1, Len(results)))
           /\ \A i \in 1..Len(precheck) :
                PairCount(results, precheck[i].username, precheck[i].password) >= 2

\* smart_attack over admin, root and 123456 has returned three results: the
\* precheck success of admin, and the two sweep results
C23_Witness ==
    /\ pc = "smart_done"
    /\ total_attempts = 2
    /\ Len(precheck) = 1
    /\ Len(results) = 3
    /\ results[1].username = "admin"
    /\ PairCount(results, "admin", "123456") = 2


\* permits taken and not yet given back: by the chunk tasks of scan_fast, or
\* by the loop body of scan_aggressive
PermitsHeld ==
    IF attack_mode = "Fast" THEN Cardinality(PermitHolders)
    ELSE IF pc \in {"aggressive_try", "aggressive_sleep", "aggressive_after"} THEN 1 ELSE 0

\* C24: in the Fast and Aggressive sweeps of the scanner every test_login
\* call in flight runs under a permit taken before it, the permits out are
\* those of the attempts not yet completed, on the response and on the
\* failure path, and when the sweep has returned all max_workers permits
\* are available.
C24_PermitDiscipline ==
    (attack_mode \in {"Fast", "Aggressive"} /\ pc \notin {"start", "panicked"})
        => /\ permits >= 0
           /\ permits + PermitsHeld = max_workers
           /\ in_flight <= max_workers - permits
           /\ (pc = "done") => permits = max_workers

\* an Aggressive scan with one permit has returned after a pair whose three
\* attempts failed and a pair that got a response; the permit is back
C24_Witness ==
    /\ attack_mode = "Aggressive"
    /\ pc = "done"
    /\ max_workers = 1
    /\ permits = 1
    /\ Len(results) = 2
    /\ results[1].error # NoError
    /\ results[2].error = NoError
    /\ [username |-> users[1], password |-> passwords[1], ok |-> TRUE] \notin calls


\* scan_normal: every Sender is dropped and the channel is drained
NormalDrained ==
    /\ attack_mode = "Normal"
    /\ consumer = "running"
    /\ senders = 0
    /\ chan = <<>>

\* the consumer of scan_normal has ended only after the producer and every
\* pair task have ended and every result has been received; a sweep that has
\* returned has a result for every pair
NoEarlyStop ==
    /\ (consumer = "finished")
         => /\ producer = "finished"
            /\ spawned = total_attempts
            /\ \A t \in 1..Len(tasks) : tasks[t].tpc = "finished"
            /\ Len(local_results) = total_attempts
    /\ Returned => Len(results) >= total_attempts

\* C25: with max_workers >= 1 and a runtime that keeps running what can run,
\* the sweep of every strategy eventually returns; in Normal the consumer
\* ends once all senders are dropped and the channel is drained, and not
\* before; no sweep returns without a result for every pair.
C25_SweepsReturn ==
    /\ <>Returned
    /\ NormalDrained ~> (consumer = "finished")
    /\ []NoEarlyStop

\* a Fast scan of two pairs whose calls both exhausted their retries has
\* returned its two failed results
C25_Witness ==
    /\ attack_mode = "Fast"
    /\ pc = "done"
    /\ max_workers >= 1
    /\ Len(results) = 2
    /\ \A i \in 1..2 : results[i].error # NoError


\* a target whose answer depends only on the credential pair: what the network
\* does during the test_login call of (u, p)
TargetRun(u, p) ==
    IF u = "root" /\ p = "123456" THEN [i \in 1..(max_retries + 1) |-> NetError("timeout")]
    ELSE IF u = "root" THEN <<NetError("connect"), NetResponse(OkDenied)>>
    ELSE IF p = "letmein" THEN <<NetResponse(RedirectDashboard)>>
    ELSE <<NetResponse(OkDenied)>>

\* every ScanResult of rs was built from the answer of that target
AnsweredByTarget(rs) ==
    \A i \in 1..Len(rs) :
        LET ret == test_login(NoCookie, TargetRun(rs[i].username, rs[i].password))
        IN  /\ rs[i].response = (IF ret.ok THEN ret.response ELSE NoResponse)
            /\ rs[i].error = (IF ret.ok THEN NoError ELSE ret.error)

\* (username, password, success, status_code) of a ScanResult
Outcome(r) == <<r.username, r.password, r.success, r.status_code>>

\* what a sweep of that target yields, pair by pair in input order
TargetOutcomes ==
    [k \in 1..total_attempts |->
        LET pair == PairAt(users, passwords, k)
        IN  Outcome(scan_result(pair.username, pair.password,
                                test_login(NoCookie, TargetRun(pair.username, pair.password))))]

Tally(outcomes, v) == Cardinality({i \in 1..Len(outcomes) : outcomes[i] = v})

SameMultiset(a, b) ==
    /\ Len(a) = Len(b)
    /\ \A i \in 1..Len(a) : Tally(a, a[i]) = Tally(b, a[i])

\* C26: the strategy changes scheduling only. When a Fast, Normal or Stealth
\* sweep of RedFoxScanner against a target whose answer depends only on the
\* credential pair has returned, the multiset of (username, password, success,
\* status_code) of its results is the one fixed by the lists and the target
\* alone, so it is the same multiset in the three strategies, whatever the
\* order.
C26_SameMultiset ==
    (/\ pc = "done"
     /\ attack_mode \in {"Fast", "Normal", "Stealth"}
     /\ AnsweredByTarget(results))
        => SameMultiset([i \in 1..Len(results) |-> Outcome(results[i])], TargetOutcomes)

\* a Normal sweep of three pairs against that target has returned its results
\* in an order other than the input order, a failed call among them
C26_Witness ==
    /\ pc = "done"
    /\ attack_mode = "Normal"
    /\ total_attempts = 3
    /\ AnsweredByTarget(results)
    /\ [i \in 1..Len(results) |-> Outcome(results[i])] # TargetOutcomes
    /\ \E i \in 1..Len(results) : results[i].status_code = 0


\* the ScanResults built so far, wherever the strategy keeps them
BuiltResults == results \o shared \o local_results

\* every test_login call made for the pair of r failed
EveryTryFailed(r) ==
    \A c \in calls : (c.username = r.username /\ c.password = r.password) => ~c.ok

RECURSIVE TotalMs(_)
TotalMs(delays) == IF delays = <<>> THEN 0 ELSE Head(delays) + TotalMs(Tail(delays))

\* C28: inside one test_login call the delay taken before the k-th retry is
\* 200 ms x k; a delay is taken only between two tries (one delay per failed
\* try that is followed by another try); no delay is taken after the final
\* failed try; and a call that has exhausted its retries has accumulated
\* exactly 1200 ms of backoff.
C28_LinearBackoff ==
    /\ \A k \in 1..Len(call.slept) : call.slept[k] = 200 * k
    /\ call.pc = "sleep" => call.delay = 200 * call.tries /\ Len(call.slept) = call.tries - 1
    /\ call.pc = "send" => call.delay = 0 /\ Len(call.slept) = call.tries
    /\ call.pc = "returned" => call.delay = 0 /\ Len(call.slept) = call.tries - 1
    /\ (call.pc = "returned" /\ ~call.ret.ok) => TotalMs(call.slept) = 1200

\* a call on a client with a valid cookie has failed four times and returned:
\* it slept 200, 400 and 600 ms, and nothing after the fourth failure
C28_Witness ==
    /\ cookies = ValidCookie
    /\ call.pc = "returned"
    /\ ~call.ret.ok
    /\ call.tries = 4
    /\ call.slept = <<200, 400, 600>>
    /\ call.delay = 0


RECURSIVE HeldByChunks(_)
\* ScanResults in the chunk_results of the chunk tasks 1..n that have not yet
\* extended the shared vector
HeldByChunks(n) ==
    IF n = 0 THEN 0
    ELSE HeldByChunks(n - 1)
           + (IF workers[n].wpc = "finished" THEN 0 ELSE Len(workers[n].chunk_results))

\* the ScanResults finalized so far by the strategy of the sweep
FinalizedCount ==
    CASE attack_mode = "Fast" -> Len(shared) + HeldByChunks(Len(workers))
      [] attack_mode = "Normal" -> Len(local_results)
      [] OTHER -> Len(results)

\* the sweep is between two pairs, or has returned
BetweenPairs == attack_mode = "Aggressive" => pc \in {"start", "aggressive", "done"}

\* C29: with progress reporting enabled, completed_count (the position of the
\* bar) has advanced by one for each finalized ScanResult, never exceeds
\* total_count = len(usernames) x len(passwords), and equals total_count and
\* the length of the result list when the sweep has completed, in every
\* strategy.
C29_ProgressCount ==
    /\ BetweenPairs => pb = FinalizedCount
    /\ pb <= total_attempts
    /\ pc = "done" => pb = total_attempts /\ pb = Len(results)


RECURSIVE SumOfIncrements(_)
SumOfIncrements(ks) == IF ks = <<>> THEN 0 ELSE Head(ks) + SumOfIncrements(Tail(ks))

\* the reading x equals a / b
ReadsAs(x, a, b) == x.den > 0 /\ x.num * b = a * x.den

\* C30: after any sequence of update(k) calls on ProgressTracker::new(total)
\* with total > 0, completed is the sum of the increments and percentage()
\* returns completed x 100 / total: 0 before any update, 10 after 100 of 1000,
\* 50 after 500 of 1000. With total = 0, percentage() returns 100.
C30_Percentage ==
    (pc = "tracking" /\ tracker.read # NoReading) =>
        /\ tracker.total_items > 0 =>
              /\ tracker.completed = SumOfIncrements(tracker.increments)
              /\ ReadsAs(tracker.read, tracker.completed * 100, tracker.total_items)
              /\ tracker.increments = <<>> => tracker.read = Fraction(0, 1)
              /\ (tracker.total_items = 1000 /\ tracker.completed = 100)
                     => tracker.read = Fraction(10, 1)
              /\ (tracker.total_items = 1000 /\ tracker.completed = 500)
                     => tracker.read = Fraction(50, 1)
        /\ tracker.total_items = 0 => tracker.read = Fraction(100, 1)

\* the tracker of 1000 items was updated by 100 and by 400 and reads 50
C30_Witness ==
    /\ pc = "tracking"
    /\ tracker.total_items = 1000
    /\ tracker.increments = <<100, 400>>
    /\ tracker.completed = 500
    /\ tracker.read = Fraction(50, 1)


\* the places where text is cut at sep: before its start, at each sep, after
\* its end
Cuts(text, sep) == {0} \cup {i \in 1..Len(text) : text[i] = sep} \cup {Len(text) + 1}

\* the characters that are not whitespace between the cut c and the next one
InkAfter(text, sep, c) ==
    LET next == CHOOSE n \in Cuts(text, sep) :
                    n > c /\ \A m \in Cuts(text, sep) : m > c => n <= m
    IN  {i \in (c + 1)..(next - 1) : ~is_whitespace(text[i])}

\* the cuts followed by an item that is kept
KeptCuts(text, sep, drop_comments) ==
    {c \in Cuts(text, sep) \ {Len(text) + 1} :
        LET ink == InkAfter(text, sep, c)
        IN  /\ ink # {}
            /\ drop_comments =>
                  text[CHOOSE i \in ink : \A j \in ink : i <= j] # Hash}

\* the items of text: its pieces between two sep, in their order, each from
\* its first to its last character that is not whitespace, the pieces left
\* empty (and, if asked, those starting with '#') removed, duplicates kept
ItemsOf(text, sep, drop_comments) ==
    LET kept == KeptCuts(text, sep, drop_comments)
        nth(j) == CHOOSE c \in kept : Cardinality({d \in kept : d < c}) = j - 1
        item(c) == LET ink == InkAfter(text, sep, c)
                   IN  SubSeq(text, CHOOSE i \in ink : \A j \in ink : i <= j,
                                    CHOOSE i \in ink : \A j \in ink : i >= j)
    IN  [j \in 1..Cardinality(kept) |-> item(nth(j))]

\* what the claim says parse_input returns for a source that yields a list
LoadedFrom(source) ==
    IF source.exists THEN ItemsOf(source.content, LF, TRUE)
    ELSE IF \E i \in 1..Len(source.text) : source.text[i] = Comma
         THEN ItemsOf(source.text, Comma, FALSE)
    ELSE IF \E i \in 1..Len(source.text) : source.text[i] = LF
         THEN ItemsOf(source.text, LF, FALSE)
    ELSE <<source.text>>

\* C31: the input loaders return the items of their input in the original
\* order, each trimmed of surrounding whitespace, empty items removed and
\* duplicates kept: parse_comma_separated splits on ',', parse_multiline on
\* line breaks, parse_file_contents on lines, removing also the lines that
\* start with '#'; parse_input of a value with no comma, no line break and no
\* matching file returns exactly that one value.
C31_LoadersKeepOrder ==
    /\ parse_comma_separated(user_input.text) = ItemsOf(user_input.text, Comma, FALSE)
    /\ parse_multiline(user_input.text) = ItemsOf(user_input.text, LF, FALSE)
    /\ parse_file_contents(user_input.content).items = ItemsOf(user_input.content, LF, TRUE)
    /\ pc \in {"new_passwords", "constructed"} => users = LoadedFrom(user_input)
    /\ pc = "constructed" => passwords = LoadedFrom(password_file)

\* "a,a" was given as the user list: two items "a", the duplicate kept
C31_Witness ==
    /\ pc = "new_passwords"
    /\ ~user_input.exists
    /\ user_input.text = <<"a", Comma, "a">>
    /\ users = << <<"a">>, <<"a">> >>


\* rs holds, in input order, one ScanResult for each of the first n pairs
OneEachInOrder(rs, n) ==
    /\ Len(rs) = n
    /\ \A k \in 1..n :
         LET pair == PairAt(users, passwords, k)
         IN  rs[k].username = pair.username /\ rs[k].password = pair.password

\* C32: in the rayon variant of the Aggressive sweep every pair contributes
\* exactly one ScanResult: the one of the first pair-level attempt that
\* obtains a response, or, when the 3 pair-level attempts fail, one failed
\* result (status_code 0, error set), pushed on the third failure only; the
\* concatenated chunk results hold every pair of the cross product once.
C32_RayonOnePerPair ==
    /\ [](pc \in {"rayon_chunk", "rayon_sleep"} => OneEachInOrder(local_results, cur - 1))
    /\ [](pc = "done" => OneEachInOrder(results, total_attempts))
    /\ [](\A i \in 1..Len(local_results) :
             (local_results[i].error # NoError) <=> (local_results[i].status_code = 0))
    /\ [][Len(local_results') > Len(local_results) =>
             LET r == local_results'[Len(local_results')]
             IN  /\ Len(local_results') = Len(local_results) + 1
                 /\ cur' = cur + 1
                 /\ r.error # NoError => attempt = 2 /\ r.status_code = 0 /\ ~r.success
                 /\ r.error = NoError => r.response # NoResponse]_vars
    /\ [][pc' = "rayon_sleep" => local_results' = local_results /\ cur' = cur]_vars

\* a sweep of two pairs has returned: the first pair failed three times and
\* has its one failed result, the second was answered at its second attempt
C32_Witness ==
    /\ pc = "done"
    /\ total_attempts = 2
    /\ Len(results) = 2
    /\ results[1].error # NoError
    /\ results[2].error = NoError
    /\ paced_ms = 3 * rayon_retry_delay


AggressivePcs ==
    {"aggressive_try", "aggressive_sleep", "aggressive_after",
     "attack_aggressive_try", "attack_aggressive_sleep", "attack_aggressive_after"}

\* HTTP tries made so far for the current pair
PairTries == TotalMs([i \in 1..Len(pair_log.attempts) |-> pair_log.attempts[i].tries])

\* C33: in Aggressive the two retry layers compose independently: a pair makes
\* at most 3 pair-level attempts, each of at most 4 transport tries (at most
\* 12 HTTP tries per pair); the fixed pair-level delay is taken only between
\* two pair-level attempts and never after the last one; and the 200 ms x k
\* backoff restarts at k = 1 in each pair-level attempt.
C33_LayersCompose ==
    /\ Len(pair_log.attempts) <= 3
    /\ PairTries <= 12
    /\ \A i \in 1..Len(pair_log.attempts) :
         LET a == pair_log.attempts[i]
         IN  /\ a.tries \in 1..4
             /\ Len(a.slept) = a.tries - 1
             /\ \A k \in 1..Len(a.slept) : a.slept[k] = 200 * k
    /\ Len(pair_log.delays) <= 2
    /\ \A i \in 1..Len(pair_log.delays) : pair_log.delays[i] = 100
    /\ pc \in {"aggressive_try", "attack_aggressive_try"}
          => Len(pair_log.delays) = Len(pair_log.attempts)
    /\ pc \in {"aggressive_sleep", "attack_aggressive_sleep",
                "aggressive_after", "attack_aggressive_after"}
          => Len(pair_log.delays) = Len(pair_log.attempts) - 1
    /\ pc \notin AggressivePcs => pair_log = NoPairLog

\* the three pair-level attempts of a pair all exhausted their transport
\* retries: 12 HTTP tries, each call slept 200, 400, 600 ms, and two
\* pair-level delays were taken
C33_Witness ==
    /\ pc = "aggressive_after"
    /\ Len(pair_log.attempts) = 3
    /\ PairTries = 12
    /\ \A i \in 1..3 : pair_log.attempts[i].slept = <<200, 400, 600>>
    /\ pair_log.delays = <<100, 100>>


\* every ScanResult of rs was built from the answer of the target of TargetRun,
\* whatever text the engine puts in error
BuiltFromTarget(rs) ==
    \A i \in 1..Len(rs) :
        LET ret == test_login(NoCookie, TargetRun(rs[i].username, rs[i].password))
        IN  /\ rs[i].response = (IF ret.ok THEN ret.response ELSE NoResponse)
            /\ (rs[i].error = NoError) <=> ret.ok

\* C34: the two strategy implementations agree. For the same lists and the
\* same per-pair target behaviour, when a Normal, Stealth or Aggressive sweep
\* has returned, be it Bruteforcer::attack or RedFoxScanner::scan, the multiset
\* of (username, password, success, status_code) of its results is the one
\* fixed by the lists and the target, hence the same for the two engines.
C34_EnginesAgree ==
    (/\ pc \in {"done", "attack_done"}
     /\ attack_mode \in {"Normal", "Stealth", "Aggressive"}
     /\ BuiltFromTarget(results))
        => SameMultiset([i \in 1..Len(results) |-> Outcome(results[i])], TargetOutcomes)

\* Bruteforcer::attack in Aggressive mode has returned from three pairs of
\* that target, the pair of root, whose calls all fail, among them
C34_Witness ==
    /\ pc = "attack_done"
    /\ attack_mode = "Aggressive"
    /\ total_attempts = 3
    /\ BuiltFromTarget(results)
    /\ \E i \in 1..Len(results) : results[i].username = "root" /\ results[i].status_code = 0
    /\ \E i \in 1..Len(results) : results[i].success


\* what a step that ends set_proxy may change
ProxyFrame ==
    /\ (pc' = "proxy_set") =>
          (/\ http_client'.base_url = http_client.base_url
           /\ http_client'.request_timeout = http_client.request_timeout
           /\ cookies' = cookies
           /\ UNCHANGED cfgVars)
    /\ (pc' = "proxy_failed") => UNCHANGED <<http_client, cookies, cfgVars>>

\* C35: RedFoxScanner::set_proxy changes only the proxy. On success the new
\* transport client keeps the base URL, the configured per-request timeout
\* and the cookie string of the previous client; on failure (invalid proxy
\* URL) it returns an error and leaves the client, the lists and the mode of
\* the scanner unchanged.
C35_ProxyOnly == [][ProxyFrame]_vars


\* the sweep has not returned and no task of it can take a step
Hung == pc \notin {"done", "panicked"} /\ ~ENABLED Next

\* C36: a worker budget of max_workers = 0 cannot make a sweep crash or hang:
\* the Fast and the Aggressive sweep of RedFoxScanner never panic on the
\* division that computes the chunk size and never wait forever on a
\* semaphore without permits.
C36_ZeroWorkersReturn ==
    (max_workers = 0 /\ attack_mode \in {"Fast", "Aggressive"})
        => (pc # "panicked" /\ ~Hung)


\* the tasks of send_batch whose request is in flight
Sending == {t \in 1..Len(tasks) : tasks[t].tpc = "sending"}

\* C37: send_batch with concurrency c >= 1 never has more than c requests in
\* flight, issues exactly one request per credential and never a retry, and
\* returns one tuple per input credential in input order, a transport
\* failure appearing as (username, password, false, 0).
C37_BatchBounded ==
    /\ Cardinality(Sending) <= max_workers
    /\ \A t \in 1..Len(tasks) :
         Len(tasks[t].requests) = (IF tasks[t].tpc = "finished" THEN 1 ELSE 0)
    /\ Len(results) <= total_attempts
    /\ \A k \in 1..Len(results) :
         LET pair == PairAt(users, passwords, k)
         IN  /\ results[k].username = pair.username
             /\ results[k].password = pair.password
             /\ tasks[k].requests[1].kind = "error"
                   => ~results[k].success /\ results[k].status_code = 0
             /\ tasks[k].requests[1].kind = "response"
                   => results[k].status_code = tasks[k].requests[1].response.status
    /\ pc = "done" => Len(results) = total_attempts

\* a batch of three credentials with concurrency 2 has returned its three
\* tuples, the second one a transport failure
C37_Witness ==
    /\ pc = "done"
    /\ max_workers = 2
    /\ Len(results) = 3
    /\ results[2].status_code = 0
    /\ results[1].success
    /\ results[3].status_code = 401


\* C38: ProgressTracker keeps completed <= total_items after any sequence of
\* update calls, so the subtraction total_items - completed of eta() never
\* goes below zero, and eta() is None exactly when completed = 0.
C38_EtaNoUnderflow ==
    pc = "tracking" =>
        /\ tracker.completed <= tracker.total_items
        /\ tracker.eta.kind \notin {"panic", "wrapped"}
        /\ tracker.eta # NotAsked => ((tracker.eta = EtaNone) <=> (tracker.completed = 0))


\* the header value cannot be read as text
Unreadable(value) == \E i \in 1..Len(value) : value[i] = ObsByte

\* C39: for a 3xx response whose Location header is present but cannot be
\* read as text, the classifier takes the value as the empty string and
\* returns success without looking at the body; and the body-keyword rule is
\* reached for a 3xx response only when the Location header is absent: with
\* the header present the verdict is the same whatever the body is.
C39_UnreadableLocation ==
    (cl_done /\ ThreeXX(cl_resp.status) /\ cl_resp.location.present)
        => /\ Unreadable(cl_resp.location.value) => cl_verdict
           /\ \A b \in Bodies : is_success_response([cl_resp EXCEPT !.body = b]) = cl_verdict

\* a 302 response whose Location is "/login" followed by a byte that is not
\* text, with the body "access denied", has been classified success
C39_Witness ==
    /\ cl_done
    /\ cl_resp.status = 302
    /\ cl_resp.location = Header(<<"/", "l", "o", "g", "i", "n", ObsByte>>)
    /\ cl_resp.body = Body(AccessDenied)
    /\ cl_verdict

====
